---- MODULE Spec2Model ----
(***************************************************************************)
(* A model of gorouter: the segment based prefix tree that stores the      *)
(* registered endpoints (normalizeUrl, insert, find) and the dispatcher    *)
(* (Serve) with its two global middleware phases.                          *)
(*                                                                         *)
(* A URL is a sequence of one-character strings, so that prefixes, offsets *)
(* and slicing behave as they do on Go strings.                            *)
(***************************************************************************)
EXTENDS Integers, Sequences, FiniteSets, TLC

VARIABLES
    heap,      \* the nodes of the tree; heap[1] is the root, children hold indexes
    stored,    \* the (method, url, route) triples whose insert returned nil
    phase,     \* "setup" while routes are registered, "serving" after Listen
    last,      \* what the last call (insert, find, ...) was given and returned
    config,    \* the options of the router: middlewares enabled, OPTIONS handler
    middlewares, \* the global registry: the preRunner and the postRunner list
    routeChain,  \* the middlewares of the registered route, in execution order
    run,       \* the request being served and the position of Serve in its chains
    trace,     \* the middlewares and handlers invoked for the request, in order
    writer,    \* the responseWriter of the context: statusCode and buffered body
    transport, \* what has been written to the http.ResponseWriter of the request
    contextPool,   \* the contexts that are in the sync.Pool of the router
    contexts,      \* every context the pool has created, by its address
    serving,       \* the position of each concurrent execution of ServeHTTP
    contextIdChan  \* the goroutine behind the id channel, and the ids it has sent

----------------------------------------------------------------------------
(* Bounds. *)

MaxInserts == 4
MaxMiddlewares == 2
MaxWorkers == 2
MaxRequests == 2
MaxCalls == 1
MaxOptions == 2
MaxMatchers == 2
MaxUrlLen == 6
MaxRoutes == 2
MaxParamLen == 3
MaxFormCalls == 3

----------------------------------------------------------------------------
(* Constants of the tree package. *)

paramStart == "{"
paramEnd == "}"
slash == "/"
paramPlaceholder == <<"/", "{", "}">>

errNil == "nil"
errMalformedParam == "errMalformedParam"
errMalformedUrl == "errMalformedUrl"
errEmptyUrl == "errEmptyUrl"
errUrlAlreadyStored == "errUrlAlreadyStored"

methodGet == "GET"
methodPost == "POST"

----------------------------------------------------------------------------
(* String helpers of the Go standard library, on sequences of characters. *)

\* s[from:] with a 0-based offset
SliceFrom(s, from) == SubSeq(s, from + 1, Len(s))

\* s[:to] with a 0-based, exclusive end
SliceTo(s, to) == SubSeq(s, 1, to)

\* strings.IndexRune: the 0-based index of the first c in s, -1 if none
IndexRune(s, c) ==
    IF \E i \in 1..Len(s) : s[i] = c
    THEN (CHOOSE i \in 1..Len(s) : s[i] = c /\ \A j \in 1..(i - 1) : s[j] # c) - 1
    ELSE -1

\* strings.HasPrefix / strings.HasSuffix for a one-character needle
HasPrefix(s, c) == Len(s) > 0 /\ s[1] = c
HasSuffix(s, c) == Len(s) > 0 /\ s[Len(s)] = c

\* strings.Split(s, "/"): always at least one (possibly empty) element
RECURSIVE Split(_)
Split(s) ==
    LET k == IndexRune(s, slash)
    IN  IF k = -1 THEN <<s>>
        ELSE <<SliceTo(s, k)>> \o Split(SliceFrom(s, k + 1))

----------------------------------------------------------------------------
(* normalizeUrl *)

\* a loop that counts the segments from 1
RECURSIVE normalizeSegmentsFromOne(_, _, _, _)
normalizeSegmentsFromOne(spl, i, s, params) ==
    IF i > Len(spl) THEN [url |-> s, params |-> params, err |-> errNil]
    ELSE LET e == spl[i]
         IN  IF ~HasPrefix(e, paramStart)
             THEN normalizeSegmentsFromOne(spl, i + 1, s \o <<slash>> \o e, params)
             ELSE IF ~HasSuffix(e, paramEnd)
             THEN [url |-> <<>>, params |-> <<>>, err |-> errMalformedParam]
             ELSE normalizeSegmentsFromOne(spl, i + 1, s \o paramPlaceholder,
                      Append(params, [key |-> SubSeq(e, 2, Len(e) - 1), index |-> i]))

RECURSIVE normalizeSegments(_, _, _, _)
normalizeSegments(spl, i, s, params) ==
    IF i > Len(spl) THEN [url |-> s, params |-> params, err |-> errNil]
    ELSE LET e == spl[i]
         IN  IF ~HasPrefix(e, paramStart)
             THEN normalizeSegments(spl, i + 1, s \o <<slash>> \o e, params)
             ELSE IF ~HasSuffix(e, paramEnd)
             THEN [url |-> <<>>, params |-> <<>>, err |-> errMalformedParam]
             ELSE normalizeSegments(spl, i + 1, s \o paramPlaceholder,
                      Append(params, [key |-> SubSeq(e, 2, Len(e) - 1), index |-> i - 1]))

\* normalizeUrl without url = url[1:]
normalizeUrlKeepsSlash(url) ==
    IF url = <<>> THEN [url |-> <<>>, params |-> <<>>, err |-> errEmptyUrl]
    ELSE IF ~HasPrefix(url, slash)
    THEN [url |-> <<>>, params |-> <<>>, err |-> errMalformedUrl]
    ELSE normalizeSegments(Split(url), 1, <<>>, <<>>)

normalizeUrl(url) ==
    IF url = <<>> THEN [url |-> <<>>, params |-> <<>>, err |-> errEmptyUrl]
    ELSE IF ~HasPrefix(url, slash)
    THEN [url |-> <<>>, params |-> <<>>, err |-> errMalformedUrl]
    ELSE normalizeSegments(Split(SliceFrom(url, 1)), 1, <<>>, <<>>)

----------------------------------------------------------------------------
(* longestCommonPrefix and getMatchingOffsets *)

RECURSIVE lcpLoop(_, _, _)
lcpLoop(url1, url2, index) ==
    IF index < Len(url1) /\ index < Len(url2) /\ url1[index + 1] = url2[index + 1]
    THEN lcpLoop(url1, url2, index + 1)
    ELSE index

\* longestCommonPrefix that stops after the first common character
longestCommonPrefixOfOne(url1, url2) ==
    IF lcpLoop(url1, url2, 0) > 1 THEN 1 ELSE lcpLoop(url1, url2, 0)

longestCommonPrefix(url1, url2) == lcpLoop(url1, url2, 0)

RECURSIVE offsetsLoop(_, _, _, _, _)
offsetsLoop(url1, url2, offset1, offset2, wildcard) ==
    IF ~(offset1 < Len(url1) /\ offset2 < Len(url2))
    THEN <<offset1, offset2, wildcard>>
    ELSE IF url1[offset1 + 1] = url2[offset2 + 1]
    THEN offsetsLoop(url1, url2, offset1 + 1, offset2 + 1, wildcard)
    ELSE IF url1[offset1 + 1] # paramStart
    THEN <<offset1, offset2, wildcard>>
    ELSE LET nextSlash1Index == IndexRune(SliceFrom(url1, offset1), slash)
             nextSlash2Index == IndexRune(SliceFrom(url2, offset2), slash)
         IN  offsetsLoop(url1, url2,
                 IF nextSlash1Index = -1 THEN Len(url1) ELSE offset1 + nextSlash1Index,
                 IF nextSlash2Index = -1 THEN Len(url2) ELSE offset2 + nextSlash2Index,
                 TRUE)

getMatchingOffsets(url1, url2) == offsetsLoop(url1, url2, 0, 0, FALSE)

----------------------------------------------------------------------------
(* The tree: newNode, insert, find. *)

\* the empty map[string]*nodeValue
NoValues == [m \in {} |-> 0]

nodeValue(params, route) == [params |-> params, route |-> route]

\* newNode with the slash every URL starts with as its fragment
newNodeOfSlash == <<[part |-> <<slash>>, values |-> NoValues, children |-> <<>>]>>

newNode == <<[part |-> <<>>, values |-> NoValues, children |-> <<>>]>>

\* the loop of insert (a breadth first walk that may split one or more keys)
RECURSIVE insertLoop(_, _, _, _, _)
insertLoop(h, nodes, i, searchUrl, parentCandidate) ==
    IF i > Len(nodes)
    THEN [heap |-> h, searchUrl |-> searchUrl, parentCandidate |-> parentCandidate]
    ELSE LET currNode == nodes[i]
             part == h[currNode].part
             lcp == longestCommonPrefix(part, searchUrl)
         IN  IF lcp = 0
             THEN insertLoop(h, nodes, i + 1, searchUrl, parentCandidate)
             ELSE IF searchUrl = part
             THEN [heap |-> h, searchUrl |-> <<>>, parentCandidate |-> currNode]
             ELSE IF Len(part) = lcp
             THEN insertLoop(h, nodes \o h[currNode].children, i + 1,
                             SliceFrom(searchUrl, lcp), currNode)
             ELSE LET newChildNode == [part |-> SliceFrom(part, lcp),
                                       values |-> h[currNode].values,
                                       children |-> h[currNode].children]
                      split == [part |-> SliceTo(part, lcp),
                                values |-> NoValues,
                                children |-> <<Len(h) + 1>>]
                  IN  insertLoop(Append([h EXCEPT ![currNode] = split], newChildNode),
                                 nodes, i + 1, SliceFrom(searchUrl, lcp), currNode)

insert(h, method, url, route) ==
    LET n == normalizeUrl(url)
        value == nodeValue(n.params, route)
    IN  IF n.err # errNil THEN [heap |-> h, err |-> n.err]
        ELSE IF h[1].part = <<>>
        THEN [heap |-> [h EXCEPT ![1].part = n.url,
                                 ![1].values = (method :> value) @@ @],
              err |-> errNil]
        ELSE LET w == insertLoop(h, <<1>>, 1, n.url, 1)
                 p == w.parentCandidate
             IN  IF w.searchUrl = <<>>
                 THEN IF method \in DOMAIN w.heap[p].values
                      THEN [heap |-> w.heap, err |-> errUrlAlreadyStored]
                      ELSE [heap |-> [w.heap EXCEPT ![p].values = (method :> value) @@ @],
                            err |-> errNil]
                 ELSE [heap |-> Append([w.heap EXCEPT ![p].children =
                                            Append(@, Len(w.heap) + 1)],
                                       [part |-> w.searchUrl,
                                        values |-> (method :> value),
                                        children |-> <<>>]),
                       err |-> errNil]

\* the loop of find: the node the walk ends on, 0 for nil
RECURSIVE findLoop(_, _, _, _, _)
findLoop(h, nodes, i, searchUrl, foundNode) ==
    IF i > Len(nodes) THEN foundNode
    ELSE LET currNode == nodes[i]
             part == h[currNode].part
             off == getMatchingOffsets(part, searchUrl)
             rem == SliceFrom(searchUrl, off[2])
         IN  IF off[1] # Len(part)
             THEN findLoop(h, nodes, i + 1, searchUrl, foundNode)
             ELSE IF rem = <<>>
             THEN IF ~off[3] THEN currNode
                  ELSE findLoop(h, nodes, i + 1, searchUrl, currNode)
             ELSE findLoop(h, nodes \o h[currNode].children, i + 1, rem, foundNode)

\* params[e.key] = spl[e.index] for every stored param, in order
RECURSIVE bindParams(_, _, _, _)
bindParams(ps, i, spl, params) ==
    IF i > Len(ps) THEN params
    ELSE bindParams(ps, i + 1, spl, (ps[i].key :> spl[ps[i].index + 1]) @@ params)

NoParams == [k \in {} |-> <<>>]
NoRoute == 0

\* find with the leading empty element of the split URL kept
findKeepsLeading(h, method, url) ==
    LET foundNode == findLoop(h, <<1>>, 1, url, 0)
        none == [kind |-> "none", route |-> NoRoute, params |-> NoParams]
    IN  IF foundNode = 0 THEN none
        ELSE IF method \notin DOMAIN h[foundNode].values THEN none
        ELSE LET v == h[foundNode].values[method]
             IN  [kind |-> "found", route |-> v.route,
                  params |-> bindParams(v.params, 1, Split(url), NoParams)]

\* find that falls back to another node with a value for the method
findWithFallback(h, method, url) ==
    LET foundNode == findLoop(h, <<1>>, 1, url, 0)
        none == [kind |-> "none", route |-> NoRoute, params |-> NoParams]
        others == {n \in 1..Len(h) : method \in DOMAIN h[n].values}
    IN  IF foundNode = 0 \/ others = {} THEN none
        ELSE LET node == IF foundNode \in others THEN foundNode
                         ELSE CHOOSE n \in others : \A o \in others : n <= o
             IN  [kind |-> "found", route |-> h[node].values[method].route,
                  params |-> NoParams]

\* find returns (nil, nil), (route, params), or panics on spl[e.index]
find(h, method, url) ==
    LET foundNode == findLoop(h, <<1>>, 1, url, 0)
        none == [kind |-> "none", route |-> NoRoute, params |-> NoParams]
    IN  IF foundNode = 0 THEN none
        ELSE IF method \notin DOMAIN h[foundNode].values THEN none
        ELSE LET v == h[foundNode].values[method]
                 spl == Tail(Split(url))
             IN  IF \E j \in 1..Len(v.params) : v.params[j].index >= Len(spl)
                 THEN [kind |-> "panic", route |-> NoRoute, params |-> NoParams]
                 ELSE [kind |-> "found", route |-> v.route,
                       params |-> bindParams(v.params, 1, spl, NoParams)]

----------------------------------------------------------------------------
(* Middlewares, the global registry and the response writer. *)

treeVars == <<heap, stored, phase, last>>
serveVars == <<config, middlewares, routeChain, run, trace, writer, transport>>
poolVars == <<contextPool, contexts, serving, contextIdChan>>

methodOptions == "OPTIONS"
methodPut == "PUT"

MiddlewarePreRunner == "preRunner"
MiddlewarePostRunner == "postRunner"

defaultStatusCode == 200
StatusNotFound == 404
StatusMultipleChoices == 300
StatusCreated == 201
StatusAccepted == 202
StatusInternalServerError == 500

\* a MiddlewareFunc: it calls next ("next"), returns without calling it
\* ("abort") or panics ("panic")
MiddlewareFunc(name, behaviour) == [name |-> name, behaviour |-> behaviour]

\* defaultMatcher and the other matcher functions that are used: what each
\* of them returns for a request
defaultMatcher == "default"

MiddlewareMatcherFunc(matcher, req) ==
    CASE matcher = defaultMatcher -> TRUE
      [] matcher = "never" -> FALSE
      [] matcher = "couldReadBody" -> req.method \in {methodPost, methodPut}

\* the options of NewMiddleware
MiddlewareWithMatchers(matchers) ==
    [option |-> "MiddlewareWithMatchers", matchers |-> matchers, isAlwaysAllowed |-> FALSE]

MiddlewareWithAlwaysAllowed(isAlwaysAllowed) ==
    [option |-> "MiddlewareWithAlwaysAllowed", matchers |-> <<>>,
     isAlwaysAllowed |-> isAlwaysAllowed]

\* o(mw): the matcher of a middleware is the list of functions that all have
\* to return true; an option without matchers leaves it as it is
applyOption(mw, o) ==
    IF o.option = "MiddlewareWithMatchers"
    THEN IF Len(o.matchers) = 0 THEN mw ELSE [mw EXCEPT !.matcher = o.matchers]
    ELSE [mw EXCEPT !.isAlwaysAllowed = o.isAlwaysAllowed]

RECURSIVE applyOptions(_, _, _)
applyOptions(mw, opts, i) ==
    IF i > Len(opts) THEN mw ELSE applyOptions(applyOption(mw, opts[i]), opts, i + 1)

\* NewMiddleware: the handler with the default matcher, then the options
NewMiddleware(handler, opts) ==
    applyOptions([name |-> handler.name, behaviour |-> handler.behaviour,
                  matcher |-> <<defaultMatcher>>, isAlwaysAllowed |-> FALSE],
                 opts, 1)

getBodyReaderMiddleware ==
    NewMiddleware(MiddlewareFunc("bodyReader", "next"),
                  <<MiddlewareWithMatchers(<<"couldReadBody">>),
                    MiddlewareWithAlwaysAllowed(TRUE)>>)
getWriterPostMiddleware ==
    NewMiddleware(MiddlewareFunc("writer", "next"), <<MiddlewareWithAlwaysAllowed(TRUE)>>)
getLoggerMiddleware ==
    NewMiddleware(MiddlewareFunc("logger", "next"), <<MiddlewareWithAlwaysAllowed(TRUE)>>)

\* the middlewares a user registers
UserMiddlewares ==
    {NewMiddleware(MiddlewareFunc("m1", "next"), <<>>),
     NewMiddleware(MiddlewareFunc("m2", "abort"), <<>>),
     NewMiddleware(MiddlewareFunc("m3", "next"), <<MiddlewareWithAlwaysAllowed(TRUE)>>),
     NewMiddleware(MiddlewareFunc("m4", "next"), <<MiddlewareWithMatchers(<<"never">>)>>),
     NewMiddleware(MiddlewareFunc("m5", "panic"), <<>>)}

\* the arguments of one variadic registration call
MiddlewareArgs == {<<a>> : a \in UserMiddlewares} \cup (UserMiddlewares \X UserMiddlewares)

\* a middleware that matches as soon as one of its matchers does
DoesMatchAny(mw, req) ==
    \E i \in 1..Len(mw.matcher) : MiddlewareMatcherFunc(mw.matcher[i], req)

\* middleware.DoesMatch: the matcher returns false at the first function
\* that does not match
DoesMatch(mw, req) ==
    \A i \in 1..Len(mw.matcher) : MiddlewareMatcherFunc(mw.matcher[i], req)

\* a registration that appends to the list of either phase
appendToMiddlewaresBehind(reg, mType, mws) ==
    IF Len(mws) = 0 THEN reg ELSE [reg EXCEPT ![mType] = @ \o mws]

appendToMiddlewares(reg, mType, mws) ==
    IF Len(mws) = 0 THEN reg
    ELSE IF mType = MiddlewarePostRunner
    THEN [reg EXCEPT ![mType] = mws \o @]
    ELSE [reg EXCEPT ![mType] = @ \o mws]

\* the registry New leaves behind: the body reader, the writer and the logger
New ==
    appendToMiddlewares(
        appendToMiddlewares([preRunner |-> <<>>, postRunner |-> <<>>],
                            MiddlewarePreRunner, <<getBodyReaderMiddleware>>),
        MiddlewarePostRunner, <<getWriterPostMiddleware, getLoggerMiddleware>>)

\* a filter that does not look at the enable flag of the router
filterMatching(reg, areEnabled, req, mwType) ==
    LET keep(m) == DoesMatch(m, req)
    IN  SelectSeq(reg[mwType], keep)

filterMatchinMiddleware(reg, areEnabled, req, mwType) ==
    LET keep(m) == (areEnabled \/ m.isAlwaysAllowed) /\ DoesMatch(m, req)
    IN  SelectSeq(reg[mwType], keep)

\* a chain that goes on whether or not the middleware called next
createChainAlways(m, idx) == idx + 1

\* middlewares.createChain: the position the chain continues at after the
\* middleware at idx has run, 0 if it returned without calling next
createChain(m, idx) == IF m[idx].behaviour = "next" THEN idx + 1 ELSE 0

newResponseWriter(statusCode) ==
    [defaultStatusCode |-> statusCode, statusCode |-> 0, b |-> <<>>]

\* responseWriter.empty: the buffer and the status are cleared
empty(rw) == [rw EXCEPT !.statusCode = 0, !.b = <<>>]

\* writeToResponse with the configured default status left out
writeToResponseNoDefault(rw) ==
    IF Len(rw.b) = 0 /\ rw.statusCode >= StatusMultipleChoices
    THEN [status |-> rw.statusCode, body |-> <<"StatusText">>]
    ELSE [status |-> IF rw.statusCode > 0 THEN rw.statusCode ELSE defaultStatusCode,
          body |-> rw.b]

\* responseWriter.writeToResponse: what is written to the http.ResponseWriter
writeToResponse(rw) ==
    IF Len(rw.b) = 0 /\ rw.statusCode >= StatusMultipleChoices
    THEN [status |-> rw.statusCode, body |-> <<"StatusText">>]
    ELSE [status |-> IF rw.statusCode > 0 THEN rw.statusCode
                     ELSE IF rw.defaultStatusCode > 0 THEN rw.defaultStatusCode
                     ELSE defaultStatusCode,
          body |-> rw.b]

NoRequest == [method |-> "", url |-> <<>>]

\* the values getHandler has bound to the context: none
NotBound == [k \in {} |-> NoParams]

Idle == [pc |-> "idle", req |-> NoRequest, handler |-> "", bound |-> NotBound,
         preMw |-> <<>>, postMw |-> <<>>, idx |-> 0, fn |-> <<>>]

routeParamsKey == "__routeParams__"

\* a getHandler that looks up the tree for every method
getHandlerThroughTree(h, opts, req) ==
    LET found == find(h, req.method, req.url)
    IN  IF found.kind = "found"
        THEN [handler |-> "route.execute", bound |-> (routeParamsKey :> found.params)]
        ELSE [handler |-> "notFoundHandler", bound |-> NotBound]

\* router.getHandler: the handler of the request and what is bound to its
\* context on the way
getHandler(h, opts, req) ==
    IF req.method = methodOptions
    THEN [handler |-> IF opts.optionsHandler THEN "optionsHandler" ELSE "noop",
          bound |-> NotBound]
    ELSE LET found == find(h, req.method, req.url)
         IN  IF found.kind = "found"
             THEN [handler |-> "route.execute",
                   bound |-> (routeParamsKey :> found.params)]
             ELSE IF found.kind = "panic"
             THEN [handler |-> "panic", bound |-> NotBound]
             ELSE [handler |-> "notFoundHandler", bound |-> NotBound]

Event(ph, name, behaviour) == [phase |-> ph, mw |-> name, behaviour |-> behaviour]

----------------------------------------------------------------------------
(* The pooled context, its buffering response writer and the id channel.   *)

MultiPartFormContentType == "multipart/form-data"
ErrCtNotMultipart == "ErrCtNotMultipart"
\* a nil *http.Request and a nil http.ResponseWriter
nilRequest == [method |-> "", contentType |-> ""]
nilWriter == 0

\* context.Background(): a context.Context without values
Background == [k \in {} |-> ""]

\* NewContext: the context the New function of the pool creates
NewContext(conf) ==
    [ctx |-> Background,
     writer |-> [defaultStatusCode |-> conf.defaultResponseStatusCode,
                 statusCode |-> 0, buff |-> <<>>, writtenBytes |-> 0, w |-> nilWriter],
     request |-> nilRequest,
     contextId |-> 0,
     isFormParsed |-> FALSE,
     index |-> 1]

\* a Reset that keeps the context.Context of the previous request
ResetKeepsValues(c, w, r) == [c EXCEPT !.writer.w = w, !.request = r]

\* context.Reset up to the receive from the id channel
Reset(c, w, r) == [c EXCEPT !.ctx = Background, !.writer.w = w, !.request = r]

\* responseWriter.Empty
writerEmpty(rw) ==
    [rw EXCEPT !.buff = <<>>, !.statusCode = 0, !.w = nilWriter, !.writtenBytes = 0]

\* context.Empty
Empty(c) == [c EXCEPT !.request = nilRequest, !.writer = writerEmpty(@), !.index = 1]

\* context.BindValue
BindValue(c, key, value) == [c EXCEPT !.ctx = (key :> value) @@ @]

\* a nil interface value
nil == "nil"

\* context.GetBindedValue: the value bound to the key, nil if there is none
GetBindedValue(c, key) == IF key \in DOMAIN c.ctx THEN c.ctx[key] ELSE nil

reqisteredUrlKey == "__registeredUrl__"

\* context.GetRegisteredUrl: the string bound to the key of the registered
\* URL, the empty string when the key has no value
GetRegisteredUrl(c) ==
    IF reqisteredUrlKey \in DOMAIN c.ctx
    THEN GetBindedValue(c, reqisteredUrlKey)
    ELSE <<>>

\* context.GetParams: the params getHandler bound, an empty map without them
GetParams(c) ==
    IF routeParamsKey \notin DOMAIN c.ctx THEN NoParams
    ELSE GetBindedValue(c, routeParamsKey)

\* context.GetParam: the zero value of a string for a key that is not there
GetParam(c, key) == IF key \in DOMAIN GetParams(c) THEN GetParams(c)[key] ELSE <<>>

ErrSyntax == "strconv.ErrSyntax"

Digits == <<"0", "1", "2", "3", "4", "5", "6", "7", "8", "9">>

IsDigit(ch) == \E d \in 1..Len(Digits) : Digits[d] = ch

\* the number a string of digits stands for
RECURSIVE digitsValue(_, _, _)
digitsValue(s, i, acc) ==
    IF i > Len(s) THEN acc
    ELSE digitsValue(s, i + 1,
                     acc * 10 + (CHOOSE d \in 1..Len(Digits) : Digits[d] = s[i]) - 1)

\* strconv.Atoi: an optional sign and at least one digit, nothing else
\* (the strings of the model are too short to leave the range of int)
Atoi(s) ==
    LET signed == Len(s) > 0 /\ s[1] \in {"-", "+"}
        digits == IF signed THEN Tail(s) ELSE s
    IN  IF digits = <<>> \/ \E i \in 1..Len(digits) : ~IsDigit(digits[i])
        THEN [value |-> 0, err |-> ErrSyntax]
        ELSE [value |-> IF signed /\ s[1] = "-" THEN 0 - digitsValue(digits, 1, 0)
                        ELSE digitsValue(digits, 1, 0),
              err |-> errNil]

\* strconv.ParseFloat(s, 64) on decimal notation without an exponent: an
\* optional sign, digits with at most one point, at least one digit. The
\* value is kept as its digits and the number of them behind the point.
ParseFloat(s) ==
    LET signed == Len(s) > 0 /\ s[1] \in {"-", "+"}
        body == IF signed THEN Tail(s) ELSE s
        isPoint(ch) == ch = "."
        points == SelectSeq(body, isPoint)
        digits == SelectSeq(body, IsDigit)
        point == CHOOSE i \in 1..(Len(body) + 1) :
                     (i <= Len(body) => body[i] = ".")
                     /\ \A j \in 1..(i - 1) : body[j] # "."
    IN  IF digits = <<>> \/ Len(points) > 1 \/ Len(digits) + Len(points) # Len(body)
        THEN [value |-> [mant |-> 0, scale |-> 0, bits |-> 64], err |-> ErrSyntax]
        ELSE [value |-> [mant |-> IF signed /\ s[1] = "-"
                                  THEN 0 - digitsValue(digits, 1, 0)
                                  ELSE digitsValue(digits, 1, 0),
                         scale |-> IF points = <<>> THEN 0 ELSE Len(body) - point,
                         bits |-> 64],
              err |-> errNil]

\* the conversion of an int to an integer of fewer bits keeps the low bits
\* (the values of the model are within 32 bits)
intN(i, bits) ==
    IF bits >= 32 THEN i
    ELSE ((i + 2 ^ (bits - 1)) % (2 ^ bits)) - 2 ^ (bits - 1)

\* context.GetIntParam
GetIntParam(c, key) == Atoi(GetParam(c, key))

\* the getters of the narrower integers share their code
getIntNParam(c, key, bits) ==
    LET r == GetIntParam(c, key)
    IN  IF r.err # errNil
        THEN [value |-> 0, err |-> errNil]
        ELSE [value |-> intN(r.value, bits), err |-> errNil]

GetInt8Param(c, key) == getIntNParam(c, key, 8)
GetInt16Param(c, key) == getIntNParam(c, key, 16)
GetInt32Param(c, key) == getIntNParam(c, key, 32)
GetInt64Param(c, key) == getIntNParam(c, key, 64)

\* context.GetFloat64Param
GetFloat64Param(c, key) == ParseFloat(GetParam(c, key))

\* context.GetFloat32Param
GetFloat32Param(c, key) ==
    LET r == GetFloat64Param(c, key)
    IN  IF r.err # errNil
        THEN [value |-> [mant |-> 0, scale |-> 0, bits |-> 32], err |-> r.err]
        ELSE [value |-> [r.value EXCEPT !.bits = 32], err |-> errNil]

\* a ParseForm that does not look at isFormParsed
ParseFormUnguarded(c) ==
    IF c.request.contentType # MultiPartFormContentType
    THEN [c |-> c, err |-> ErrCtNotMultipart, parses |-> 0]
    ELSE [c |-> [c EXCEPT !.isFormParsed = TRUE], err |-> errNil, parses |-> 1]

\* context.ParseForm: the context after the call, the error returned and
\* the number of calls of request.ParseMultipartForm that were made
ParseForm(c) ==
    IF c.isFormParsed THEN [c |-> c, err |-> errNil, parses |-> 0]
    ELSE IF c.request.contentType # MultiPartFormContentType
    THEN [c |-> c, err |-> ErrCtNotMultipart, parses |-> 0]
    ELSE [c |-> [c EXCEPT !.isFormParsed = TRUE], err |-> errNil, parses |-> 1]

\* context.GetFormValue: ParseForm is called if the form is not parsed yet
GetFormValue(c) ==
    IF ~c.isFormParsed THEN ParseForm(c) ELSE [c |-> c, err |-> errNil, parses |-> 0]

\* context.GetFormFile: ParseForm is called if the form is not parsed yet
GetFormFile(c) ==
    IF ~c.isFormParsed THEN ParseForm(c) ELSE [c |-> c, err |-> errNil, parses |-> 0]

\* context.Next: the index is a uint8
Next(c) == [c EXCEPT !.index = (@ + 1) % 256]

\* context.GetCurrentIndex
GetCurrentIndex(c) == c.index

\* Middleware.Handle of a middleware of a route: it calls ctx.Next() as
\* often as it is written to (nexts), and returns
Handle(e, c) == [c EXCEPT !.index = (@ + e.nexts) % 256]

\* the first loop of ExecuteChain: the context, the middlewares that were
\* invoked and needToExecuteHandler
RECURSIVE preRunners(_, _, _, _, _)
preRunners(mws, i, c, lastIndex, invoked) ==
    IF i > Len(mws)
    THEN [c |-> c, invoked |-> invoked, needToExecuteHandler |-> TRUE]
    ELSE LET after == Handle(mws[i], c)
             currentIndex == GetCurrentIndex(after)
         IN  IF currentIndex = lastIndex
             THEN [c |-> after, invoked |-> Append(invoked, mws[i].name),
                   needToExecuteHandler |-> FALSE]
             ELSE preRunners(mws, i + 1, after, currentIndex,
                             Append(invoked, mws[i].name))

\* the last loop of ExecuteChain
RECURSIVE postRunners(_, _, _, _)
postRunners(mws, i, c, invoked) ==
    IF i > Len(mws) THEN [c |-> c, invoked |-> invoked]
    ELSE postRunners(mws, i + 1, Handle(mws[i], c), Append(invoked, mws[i].name))

\* an ExecuteChain that returns when the handler is not to be executed
ExecuteChainUntilAbort(route, c, lastIndex) ==
    LET pre == preRunners(route[MiddlewarePreRunner], 1, c, lastIndex, <<>>)
    IN  IF pre.needToExecuteHandler
        THEN postRunners(route[MiddlewarePostRunner], 1, Next(pre.c),
                         Append(pre.invoked, "handler"))
        ELSE [c |-> pre.c, invoked |-> pre.invoked]

\* route.ExecuteChain, with route.Handle: the handler of the route is called
\* and then ctx.Next()
ExecuteChain(route, c, lastIndex) ==
    LET pre == preRunners(route[MiddlewarePreRunner], 1, c, lastIndex, <<>>)
    IN  IF pre.needToExecuteHandler
        THEN postRunners(route[MiddlewarePostRunner], 1, Next(pre.c),
                         Append(pre.invoked, "handler"))
        ELSE postRunners(route[MiddlewarePostRunner], 1, pre.c, pre.invoked)

\* context.WriteResponse on the buffering writer: the bytes are appended
writeBuff(c, b) ==
    [c EXCEPT !.writer.buff = @ \o b, !.writer.writtenBytes = @ + Len(b)]

\* getContextIdChan: the goroutine starts with the counter 1
getContextIdChan == [counter |-> 1, issued |-> <<>>]

\* a receive that leaves the counter of the goroutine as it was
receiveStale(ch) ==
    [id |-> ch.counter, ch |-> [ch EXCEPT !.issued = Append(@, ch.counter)]]

\* <-ctx.contextIdChan: the goroutine sends its counter and increments it
receive(ch) ==
    [id |-> ch.counter,
     ch |-> [counter |-> ch.counter + 1, issued |-> Append(ch.issued, ch.counter)]]

\* a Get that leaves the context in the pool
poolGetShared(free, c) == free

\* sync.Pool.Get: the context handed out is no longer in the pool
poolGet(free, c) == free \ {c}

\* sync.Pool.Put
poolPut(free, c) == free \cup {c}

NotServing == [pc |-> "idle", ctx |-> 0, req |-> nilRequest, steps |-> <<>>,
               formErrs |-> {}]

----------------------------------------------------------------------------
(* The inputs of the tree: the URLs routes are registered with and the    *)
(* URLs that are requested.                                                *)

uAb == <<"/", "a", "b">>
uB == <<"/", "b">>
uAbb == <<"/", "a", "b", "b">>
uASlashB == <<"/", "a", "/", "b">>
uX == <<"/", "{", "x", "}">>
uY == <<"/", "{", "y", "}">>
uXSlashB == <<"/", "{", "x", "}", "/", "b">>
uNoSlash == <<"a">>
uOpenParam == <<"/", "{", "x">>

Methods == {methodGet, methodPost}

\* the calls of router.Get and router.Post that are tried during setup:
\* URLs that share prefixes and suffixes, wildcards, and malformed URLs
Registrations ==
    {<<methodGet, uAb>>, <<methodGet, uAbb>>, <<methodPost, uB>>, <<methodPost, uAbb>>,
     <<methodPost, uAb>>,
     <<methodGet, uX>>, <<methodGet, uY>>, <<methodGet, uXSlashB>>, <<methodGet, uASlashB>>,
     <<methodGet, <<>> >>, <<methodGet, uNoSlash>>, <<methodGet, uOpenParam>>}

RequestUrls == {uAb, uB, uAbb, uASlashB}

----------------------------------------------------------------------------
(* The state machine of the tree: routes are registered during setup,     *)
(* Listen starts the serving of requests, each of them is looked up.      *)

NoCall == [op |-> "none", method |-> "", url |-> <<>>, err |-> errNil,
           res |-> [kind |-> "none", route |-> NoRoute, params |-> NoParams]]

TreeInit ==
    /\ heap = newNode
    /\ stored = {}
    /\ phase = "setup"
    /\ last = NoCall
    /\ config = [areMiddlewaresEnabled |-> TRUE, optionsHandler |-> FALSE,
                 panicHandler |-> FALSE,
                 defaultResponseStatusCode |-> defaultStatusCode]
    /\ middlewares = New
    /\ routeChain = <<>>
    /\ run = Idle
    /\ trace = <<>>
    /\ writer = newResponseWriter(config.defaultResponseStatusCode)
    /\ transport = <<>>
    /\ contextPool = {}
    /\ contexts = <<>>
    /\ serving = [wk \in 1..MaxWorkers |-> NotServing]
    /\ contextIdChan = getContextIdChan

\* router.addRoute: a new route is created and inserted into the tree
AddRoute(method, url) ==
    /\ phase = "setup"
    /\ Cardinality(stored) < MaxInserts
    /\ LET route == Cardinality(stored) + 1
           r == insert(heap, method, url, route)
       IN  /\ heap' = r.heap
           /\ stored' = IF r.err = errNil
                        THEN stored \cup {[method |-> method, url |-> url, route |-> route]}
                        ELSE stored
           /\ last' = [NoCall EXCEPT !.op = "insert", !.method = method,
                                     !.url = url, !.err = r.err]
    /\ UNCHANGED <<phase, serveVars, poolVars>>

\* router.Listen: from now on the tree is only read
Listen ==
    /\ phase = "setup"
    /\ phase' = "serving"
    /\ UNCHANGED <<heap, stored, last, serveVars, poolVars>>

\* router.getHandler: the lookup of one request
Lookup(method, url) ==
    /\ phase = "serving"
    /\ last' = [NoCall EXCEPT !.op = "find", !.method = method, !.url = url,
                              !.res = find(heap, method, url)]
    /\ UNCHANGED <<heap, stored, phase, serveVars, poolVars>>

TreeNext ==
    \/ \E reg \in Registrations : AddRoute(reg[1], reg[2])
    \/ Listen
    \/ \E method \in Methods, url \in RequestUrls : Lookup(method, url)

vars == <<treeVars, serveVars, poolVars>>

Spec == TreeInit /\ [][TreeNext]_vars

----------------------------------------------------------------------------
(* The state machine of the dispatcher: middlewares are registered during *)
(* setup; after Listen each request runs through ServeHTTP: the pre chain, *)
(* the handler (the chain of the route), the post chain.                   *)

Requests ==
    {[method |-> methodGet, url |-> uAb], [method |-> methodGet, url |-> uB],
     [method |-> methodPost, url |-> uAb], [method |-> methodOptions, url |-> uAb]}

\* the middlewares registered on the route (MiddlewareFunc, no matcher)
RouteMiddlewares ==
    {NewMiddleware(MiddlewareFunc("r1", "next"), <<>>),
     NewMiddleware(MiddlewareFunc("r2", "abort"), <<>>)}

RouteMiddlewareArgs ==
    {<<a>> : a \in RouteMiddlewares} \cup (RouteMiddlewares \X RouteMiddlewares)

\* the middlewares users have registered, global and on the route
Registered ==
    (Len(middlewares[MiddlewarePreRunner]) - Len(New[MiddlewarePreRunner]))
    + (Len(middlewares[MiddlewarePostRunner]) - Len(New[MiddlewarePostRunner]))
    + Len(routeChain)

\* route.registerMiddleware: the new function calls the old head of the chain
registerMiddleware(chain, mw) == <<mw>> \o chain

\* route.RegisterMiddlewares: registers the arguments in reversed order
RECURSIVE routeRegisterMiddlewares(_, _, _)
routeRegisterMiddlewares(chain, mws, i) ==
    IF i < 1 THEN chain
    ELSE routeRegisterMiddlewares(registerMiddleware(chain, mws[i]), mws, i - 1)

ServeInit ==
    /\ heap = insert(newNode, methodGet, uAb, 1).heap
    /\ stored = {[method |-> methodGet, url |-> uAb, route |-> 1]}
    /\ phase = "setup"
    /\ last = NoCall
    /\ config \in [areMiddlewaresEnabled : BOOLEAN, optionsHandler : BOOLEAN,
                    panicHandler : BOOLEAN,
                    defaultResponseStatusCode : {defaultStatusCode, StatusCreated}]
    /\ middlewares = New
    /\ routeChain = <<>>
    /\ run = Idle
    /\ trace = <<>>
    /\ writer = newResponseWriter(config.defaultResponseStatusCode)
    /\ transport = <<>>
    /\ contextPool = {}
    /\ contexts = <<>>
    /\ serving = [wk \in 1..MaxWorkers |-> NotServing]
    /\ contextIdChan = getContextIdChan

\* router.RegisterMiddlewares
RegisterMiddlewares(mws) ==
    /\ phase = "setup"
    /\ Registered + Len(mws) <= MaxMiddlewares
    /\ middlewares' = appendToMiddlewares(middlewares, MiddlewarePreRunner, mws)
    /\ UNCHANGED <<treeVars, poolVars, config, routeChain, run, trace, writer, transport>>

\* router.RegisterPostMiddlewares
RegisterPostMiddlewares(mws) ==
    /\ phase = "setup"
    /\ Registered + Len(mws) <= MaxMiddlewares
    /\ middlewares' = appendToMiddlewares(middlewares, MiddlewarePostRunner, mws)
    /\ UNCHANGED <<treeVars, poolVars, config, routeChain, run, trace, writer, transport>>

\* route.RegisterMiddlewares
RouteRegisterMiddlewares(mws) ==
    /\ phase = "setup"
    /\ Registered + Len(mws) <= MaxMiddlewares
    /\ routeChain' = routeRegisterMiddlewares(routeChain, mws, Len(mws))
    /\ UNCHANGED <<treeVars, poolVars, config, middlewares, run, trace, writer, transport>>

\* responseWriter.write: the buffer is replaced by the bytes given
write(rw, b) == [rw EXCEPT !.b = b]

\* responseWriter.setStatus
setStatus(rw, statusCode) == [rw EXCEPT !.statusCode = statusCode]

\* the calls a handler makes on its context; a write passes one byte
WriteResponse(c) == [op |-> "WriteResponse", b |-> <<c>>, statusCode |-> 0]
SetStatusCode(statusCode) == [op |-> "SetStatusCode", b |-> <<>>, statusCode |-> statusCode]
WriteToResponseNow == [op |-> "WriteToResponseNow", b |-> <<>>, statusCode |-> 0]
Panic == [op |-> "panic", b |-> <<>>, statusCode |-> 0]

\* the handlers a route is registered with: the calls they make, in order
HandlerFuncs ==
    {<<WriteResponse("r")>>,
     <<WriteResponse("a"), WriteResponse("b")>>,
     <<SetStatusCode(StatusAccepted), WriteResponse("r")>>,
     <<WriteResponse("a"), WriteToResponseNow, WriteResponse("b")>>,
     <<Panic>>}

Panics(fn) == \E i \in 1..Len(fn) : fn[i].op = "panic"

\* router.Serve with only the post chain called
ServePostOnly(h, opts, reg, req) ==
    [pc |-> "post", req |-> req,
     handler |-> getHandler(h, opts, req).handler,
     bound |-> getHandler(h, opts, req).bound,
     preMw |-> filterMatchinMiddleware(reg, opts.areMiddlewaresEnabled,
                                       req, MiddlewarePreRunner),
     postMw |-> filterMatchinMiddleware(reg, opts.areMiddlewaresEnabled,
                                        req, MiddlewarePostRunner),
     idx |-> 1, fn |-> <<>>]

\* router.Serve: the handler is resolved and both global lists are filtered,
\* then the pre chain is called, and the post chain after it
Serve(h, opts, reg, req) ==
    [pc |-> "pre", req |-> req,
     handler |-> getHandler(h, opts, req).handler,
     bound |-> getHandler(h, opts, req).bound,
     preMw |-> filterMatchinMiddleware(reg, opts.areMiddlewaresEnabled,
                                       req, MiddlewarePreRunner),
     postMw |-> filterMatchinMiddleware(reg, opts.areMiddlewaresEnabled,
                                        req, MiddlewarePostRunner),
     idx |-> 1, fn |-> <<>>]

\* router.ServeHTTP up to the call of the pre chain: the context is reset,
\* Serve resolves the handler and filters both global lists
ServeHTTP(req) ==
    /\ phase = "serving"
    /\ run.pc = "idle"
    /\ run' = Serve(heap, config, middlewares, req)
    /\ trace' = <<>>
    /\ writer' = empty(writer)
    /\ transport' = <<>>
    /\ UNCHANGED <<treeVars, poolVars, config, middlewares, routeChain>>

\* the pre chain executes its next global middleware
PreStep ==
    /\ run.pc = "pre"
    /\ run.idx <= Len(run.preMw)
    /\ trace' = Append(trace, Event("pre", run.preMw[run.idx].name, run.preMw[run.idx].behaviour))
    /\ LET n == createChain(run.preMw, run.idx)
       IN  run' = IF run.preMw[run.idx].behaviour = "panic"
                  THEN [run EXCEPT !.pc = "panic", !.idx = 0]
                  ELSE IF n = 0 THEN [run EXCEPT !.pc = "post", !.idx = 1]
                  ELSE [run EXCEPT !.idx = n]
    /\ UNCHANGED <<treeVars, poolVars, config, middlewares, routeChain, writer, transport>>

\* the tail of the pre chain: the resolved handler is called
Handler ==
    /\ run.pc = "pre"
    /\ run.idx = Len(run.preMw) + 1
    /\ trace' = Append(trace, Event("handler", run.handler, "return"))
    /\ run' = IF run.handler = "route.execute"
              THEN [run EXCEPT !.pc = "route", !.idx = 1]
              ELSE [run EXCEPT !.pc = "post", !.idx = 1]
    /\ writer' = CASE run.handler = "notFoundHandler" ->
                          [writer EXCEPT !.statusCode = StatusNotFound]
                   [] run.handler = "optionsHandler" ->
                          [writer EXCEPT !.statusCode = defaultStatusCode, !.b = <<>>]
                   [] OTHER -> writer
    /\ UNCHANGED <<treeVars, poolVars, config, middlewares, routeChain, transport>>

\* route.execute: the next middleware of the route
RouteStep ==
    /\ run.pc = "route"
    /\ run.idx <= Len(routeChain)
    /\ trace' = Append(trace, Event("route", routeChain[run.idx].name, routeChain[run.idx].behaviour))
    /\ LET n == createChain(routeChain, run.idx)
       IN  run' = IF n = 0 THEN [run EXCEPT !.pc = "post", !.idx = 1]
                  ELSE [run EXCEPT !.idx = n]
    /\ UNCHANGED <<treeVars, poolVars, config, middlewares, routeChain, writer, transport>>

\* route.execute: the handler the route was registered with is called
Terminal(fn) ==
    /\ run.pc = "route"
    /\ run.idx = Len(routeChain) + 1
    /\ trace' = Append(trace, Event("terminal", "fn",
                                    IF Panics(fn) THEN "panic" ELSE "return"))
    /\ run' = [run EXCEPT !.pc = "fn", !.idx = 1, !.fn = fn]
    /\ UNCHANGED <<treeVars, poolVars, config, middlewares, routeChain, writer, transport>>

\* the handler of the route makes its next call on the context
FnStep ==
    /\ run.pc = "fn"
    /\ run.idx <= Len(run.fn)
    /\ LET call == run.fn[run.idx]
       IN  /\ writer' = CASE call.op = "WriteResponse" -> write(writer, call.b)
                          [] call.op = "SetStatusCode" -> setStatus(writer, call.statusCode)
                          [] OTHER -> writer
           /\ transport' = IF call.op = "WriteToResponseNow"
                           THEN Append(transport, writeToResponse(writer))
                           ELSE transport
           /\ trace' = CASE call.op = "WriteResponse" ->
                                Append(trace, Event("write", call.b[1], "return"))
                         [] call.op = "WriteToResponseNow" ->
                                Append(trace, Event("flush", "WriteToResponseNow", "return"))
                         [] OTHER -> trace
           /\ run' = IF call.op = "panic"
                     THEN [run EXCEPT !.pc = "panic", !.idx = 0]
                     ELSE [run EXCEPT !.idx = @ + 1]
    /\ UNCHANGED <<treeVars, poolVars, config, middlewares, routeChain>>

\* the handler of the route returns: the pre chain is over
FnReturn ==
    /\ run.pc = "fn"
    /\ run.idx = Len(run.fn) + 1
    /\ run' = [run EXCEPT !.pc = "post", !.idx = 1]
    /\ UNCHANGED <<treeVars, poolVars, config, middlewares, routeChain, trace, writer, transport>>

\* the post chain executes its next global middleware; the writer middleware
\* calls WriteToResponseNow
PostStep ==
    /\ run.pc = "post"
    /\ run.idx <= Len(run.postMw)
    /\ trace' = Append(trace, Event("post", run.postMw[run.idx].name, run.postMw[run.idx].behaviour))
    /\ transport' = IF run.postMw[run.idx] = getWriterPostMiddleware
                    THEN Append(transport, writeToResponse(writer))
                    ELSE transport
    /\ LET n == createChain(run.postMw, run.idx)
       IN  run' = IF run.postMw[run.idx].behaviour = "panic"
                  THEN [run EXCEPT !.pc = "panic", !.idx = 0]
                  ELSE IF n = 0 THEN [run EXCEPT !.pc = "done", !.idx = 0]
                  ELSE [run EXCEPT !.idx = n]
    /\ UNCHANGED <<treeVars, poolVars, config, middlewares, routeChain, writer>>

\* the tail of the post chain does nothing: Serve returns
PostTail ==
    /\ run.pc = "post"
    /\ run.idx = Len(run.postMw) + 1
    /\ run' = [run EXCEPT !.pc = "done", !.idx = 0]
    /\ UNCHANGED <<treeVars, poolVars, config, middlewares, routeChain, trace, writer, transport>>

\* the deferred function of Serve, installed when a panic handler is
\* configured: the panic is recovered, the panic handler is called with the
\* context (it sets a status), and Serve returns
PanicHandler ==
    /\ run.pc = "panic"
    /\ config.panicHandler
    /\ trace' = Append(trace, Event("panicHandler", "panicHandler", "return"))
    /\ writer' = setStatus(writer, StatusInternalServerError)
    /\ run' = [run EXCEPT !.pc = "done", !.idx = 0]
    /\ UNCHANGED <<treeVars, poolVars, config, middlewares, routeChain, transport>>

\* no panic handler is configured, so Serve has no deferred recover: the
\* panic leaves Serve and ServeHTTP
Propagate ==
    /\ run.pc = "panic"
    /\ ~config.panicHandler
    /\ run' = [run EXCEPT !.pc = "escaped"]
    /\ UNCHANGED <<treeVars, poolVars, config, middlewares, routeChain, trace, writer, transport>>

\* the panic ends the goroutine of the connection; the context was neither
\* emptied nor put back, so the pool creates the context of the next request
ConnectionClosed ==
    /\ run.pc = "escaped"
    /\ run' = Idle
    /\ writer' = newResponseWriter(config.defaultResponseStatusCode)
    /\ UNCHANGED <<treeVars, poolVars, config, middlewares, routeChain, trace, transport>>

\* router.ServeHTTP after Serve: the context is emptied and put back
Release ==
    /\ run.pc = "done"
    /\ run' = Idle
    /\ writer' = empty(writer)
    /\ UNCHANGED <<treeVars, poolVars, config, middlewares, routeChain, trace, transport>>

ServeNext ==
    \/ \E mws \in MiddlewareArgs : RegisterMiddlewares(mws)
    \/ \E mws \in MiddlewareArgs : RegisterPostMiddlewares(mws)
    \/ \E mws \in RouteMiddlewareArgs : RouteRegisterMiddlewares(mws)
    \/ Listen
    \/ \E req \in Requests : ServeHTTP(req)
    \/ PreStep
    \/ Handler
    \/ RouteStep
    \/ \E fn \in HandlerFuncs : Terminal(fn)
    \/ FnStep
    \/ FnReturn
    \/ PostStep
    \/ PostTail
    \/ PanicHandler
    \/ Propagate
    \/ ConnectionClosed
    \/ Release

SpecServe == ServeInit /\ [][ServeNext]_vars

----------------------------------------------------------------------------
(* The state machine of the context pool: concurrent executions of        *)
(* ServeHTTP take a context out of the pool, reset it, serve the request,  *)
(* empty the context and put it back.                                      *)

PoolRequests ==
    {[method |-> methodPost, contentType |-> MultiPartFormContentType],
     [method |-> methodGet, contentType |-> "text/plain"]}

\* the calls the handlers of a request make on its context
ContextCalls == {"BindValue", "ParseForm", "GetFormValue", "WriteResponse"}

\* what the handlers of one request call, in order
CallSeqs == UNION {[1..n -> ContextCalls] : n \in 0..MaxCalls}

Workers == 1..MaxWorkers

\* the executions of ServeHTTP that have started
Started ==
    Len(contextIdChan.issued)
    + Cardinality({wk \in Workers : serving[wk].pc = "got"})

PoolInit ==
    /\ heap = newNode
    /\ stored = {}
    /\ phase = "serving"
    /\ last = NoCall
    /\ config = [areMiddlewaresEnabled |-> TRUE, optionsHandler |-> FALSE,
                 panicHandler |-> FALSE,
                 defaultResponseStatusCode |-> defaultStatusCode]
    /\ middlewares = New
    /\ routeChain = <<>>
    /\ run = Idle
    /\ trace = <<>>
    /\ writer = newResponseWriter(config.defaultResponseStatusCode)
    /\ transport = <<>>
    /\ contextPool = {}
    /\ contexts = <<>>
    /\ serving = [wk \in Workers |-> NotServing]
    /\ contextIdChan = getContextIdChan

\* router.ServeHTTP: contextPool.Get() returns a context of the pool, or,
\* when the pool is empty, the one its New function creates; the request is
\* taken by the first goroutine that is free (they are all alike)
Get(wk, req) ==
    /\ serving[wk].pc = "idle"
    /\ \A v \in Workers : v < wk => serving[v].pc # "idle"
    /\ Started < MaxRequests
    /\ \E c \in IF contextPool = {} THEN {Len(contexts) + 1} ELSE contextPool :
           /\ contexts' = IF c > Len(contexts)
                          THEN Append(contexts, NewContext(config))
                          ELSE contexts
           /\ contextPool' = poolGet(contextPool, c)
           /\ serving' = [serving EXCEPT ![wk] =
                              [NotServing EXCEPT !.pc = "got", !.ctx = c, !.req = req,
                                                 !.steps = <<"Get">>]]
    /\ UNCHANGED <<treeVars, serveVars, contextIdChan>>

\* context.Reset: the references of the request are set and the id of the
\* context is received from the channel
ResetContext(wk) ==
    /\ serving[wk].pc = "got"
    /\ LET r == receive(contextIdChan)
       IN  /\ contexts' = [contexts EXCEPT ![serving[wk].ctx] =
                              [Reset(@, wk, serving[wk].req) EXCEPT !.contextId = r.id]]
           /\ contextIdChan' = r.ch
    /\ serving' = [serving EXCEPT ![wk].pc = "serve", ![wk].steps = Append(@, "Reset")]
    /\ UNCHANGED <<treeVars, serveVars, contextPool>>

\* one call of a handler or a middleware on the context: the context after
\* the call and the error it returned ("none" for a call without an error)
call(c, op) ==
    CASE op = "BindValue" -> [c |-> BindValue(c, routeParamsKey, "params"), err |-> "none"]
      [] op = "ParseForm" -> ParseForm(c)
      [] op = "GetFormValue" -> GetFormValue(c)
      [] op = "WriteResponse" -> [c |-> writeBuff(c, <<"r">>), err |-> "none"]

\* the calls of a request, one after the other: the context they leave and
\* the errors the form calls returned
RECURSIVE applyCalls(_, _, _, _)
applyCalls(c, calls, i, errs) ==
    IF i > Len(calls) THEN [c |-> c, errs |-> errs]
    ELSE LET r == call(c, calls[i])
         IN  applyCalls(r.c, calls, i + 1, errs \cup ({r.err} \ {"none"}))

\* router.Serve: the handlers and middlewares of the request make their
\* calls on the context, and Serve returns
ServeReturns(wk, calls) ==
    /\ serving[wk].pc = "serve"
    /\ LET r == applyCalls(contexts[serving[wk].ctx], calls, 1, {})
       IN  /\ contexts' = [contexts EXCEPT ![serving[wk].ctx] = r.c]
           /\ serving' = [serving EXCEPT ![wk].pc = "served",
                                         ![wk].steps = Append(@, "Serve"),
                                         ![wk].formErrs = r.errs]
    /\ UNCHANGED <<treeVars, serveVars, contextPool, contextIdChan>>

\* router.Serve panics and no panic handler is configured: ServeHTTP is left
\* with the context neither emptied nor put back
ServePanics(wk) ==
    /\ serving[wk].pc = "serve"
    /\ ~config.panicHandler
    /\ serving' = [serving EXCEPT ![wk] = NotServing]
    /\ UNCHANGED <<treeVars, serveVars, contextPool, contexts, contextIdChan>>

\* router.ServeHTTP: ctx.Empty()
EmptyContext(wk) ==
    /\ serving[wk].pc = "served"
    /\ contexts' = [contexts EXCEPT ![serving[wk].ctx] = Empty(@)]
    /\ serving' = [serving EXCEPT ![wk].pc = "emptied", ![wk].steps = Append(@, "Empty")]
    /\ UNCHANGED <<treeVars, serveVars, contextPool, contextIdChan>>

\* router.ServeHTTP: contextPool.Put(ctx)
Put(wk) ==
    /\ serving[wk].pc = "emptied"
    /\ contextPool' = poolPut(contextPool, serving[wk].ctx)
    /\ serving' = [serving EXCEPT ![wk] = NotServing]
    /\ UNCHANGED <<treeVars, serveVars, contexts, contextIdChan>>

PoolNext ==
    \/ \E wk \in Workers, req \in PoolRequests : Get(wk, req)
    \/ \E wk \in Workers : ResetContext(wk)
    \/ \E wk \in Workers, calls \in CallSeqs : ServeReturns(wk, calls)
    \/ \E wk \in Workers : ServePanics(wk)
    \/ \E wk \in Workers : EmptyContext(wk)
    \/ \E wk \in Workers : Put(wk)

SpecPool == PoolInit /\ [][PoolNext]_vars

----------------------------------------------------------------------------
(* The resolution of the handler of a request: routes are registered, and  *)
(* getHandler is called with requests of every method, OPTIONS included,   *)
(* on a router with or without an OPTIONS handler.                         *)

\* the calls of router.Get and router.Post before Listen, in order
RouteArgs == UNION {[1..n -> Registrations] : n \in 0..MaxRoutes}

\* router.addRoute for each call: the tree and the bindings it has stored
RECURSIVE addRoutes(_, _, _, _)
addRoutes(regs, i, h, st) ==
    IF i > Len(regs) THEN [heap |-> h, stored |-> st]
    ELSE LET route == Cardinality(st) + 1
             r == insert(h, regs[i][1], regs[i][2], route)
         IN  addRoutes(regs, i + 1, r.heap,
                       IF r.err = errNil
                       THEN st \cup {[method |-> regs[i][1], url |-> regs[i][2],
                                      route |-> route]}
                       ELSE st)

DispatchMethods == {methodGet, methodPost, methodOptions}

DispatchInit ==
    /\ \E regs \in RouteArgs :
           /\ heap = addRoutes(regs, 1, newNode, {}).heap
           /\ stored = addRoutes(regs, 1, newNode, {}).stored
    /\ phase = "serving"
    /\ last = NoCall
    /\ \E optionsHandler \in BOOLEAN :
           config = [areMiddlewaresEnabled |-> TRUE, optionsHandler |-> optionsHandler,
                     panicHandler |-> FALSE,
                     defaultResponseStatusCode |-> defaultStatusCode]
    /\ middlewares = New
    /\ routeChain = <<>>
    /\ run = Idle
    /\ trace = <<>>
    /\ writer = newResponseWriter(config.defaultResponseStatusCode)
    /\ transport = <<>>
    /\ contextPool = {}
    /\ contexts = <<>>
    /\ serving = [wk \in 1..MaxWorkers |-> NotServing]
    /\ contextIdChan = getContextIdChan

\* router.Serve calls getHandler with the context of the request
GetHandler(method, url) ==
    /\ phase = "serving"
    /\ last' = [NoCall EXCEPT !.op = "getHandler", !.method = method, !.url = url,
                              !.res = getHandler(heap, config,
                                                 [method |-> method, url |-> url])]
    /\ UNCHANGED <<heap, stored, phase, serveVars, poolVars>>

DispatchNext == \E method \in DispatchMethods, url \in RequestUrls : GetHandler(method, url)

SpecDispatch == DispatchInit /\ [][DispatchNext]_vars

----------------------------------------------------------------------------
(* The creation of a global middleware: NewMiddleware is called with a     *)
(* list of options, and the middleware is asked whether it matches the     *)
(* context of a request.                                                   *)

MatcherFuncs == {defaultMatcher, "never", "couldReadBody"}

\* the arguments of MiddlewareWithMatchers
MatcherArgs == UNION {[1..n -> MatcherFuncs] : n \in 0..MaxMatchers}

MiddlewareOptions ==
    {MiddlewareWithMatchers(matchers) : matchers \in MatcherArgs}
    \cup {MiddlewareWithAlwaysAllowed(b) : b \in BOOLEAN}

\* the options NewMiddleware is called with
OptionArgs == UNION {[1..n -> MiddlewareOptions] : n \in 0..MaxOptions}

MatchRequests ==
    {[method |-> methodGet, url |-> uAb], [method |-> methodPost, url |-> uAb]}

MatchInit ==
    /\ heap = newNode
    /\ stored = {}
    /\ phase = "setup"
    /\ \E opts \in OptionArgs, req \in MatchRequests :
           last = [op |-> "NewMiddleware", opts |-> opts, req |-> req,
                   mw |-> NewMiddleware(MiddlewareFunc("mw", "next"), opts),
                   res |-> FALSE]
    /\ config = [areMiddlewaresEnabled |-> TRUE, optionsHandler |-> FALSE,
                 panicHandler |-> FALSE,
                 defaultResponseStatusCode |-> defaultStatusCode]
    /\ middlewares = New
    /\ routeChain = <<>>
    /\ run = Idle
    /\ trace = <<>>
    /\ writer = newResponseWriter(config.defaultResponseStatusCode)
    /\ transport = <<>>
    /\ contextPool = {}
    /\ contexts = <<>>
    /\ serving = [wk \in 1..MaxWorkers |-> NotServing]
    /\ contextIdChan = getContextIdChan

\* filterMatchinMiddleware asks the middleware: m.DoesMatch(ctx)
AskDoesMatch ==
    /\ last.op = "NewMiddleware"
    /\ last' = [last EXCEPT !.op = "DoesMatch", !.res = DoesMatch(last.mw, last.req)]
    /\ UNCHANGED <<heap, stored, phase, serveVars, poolVars>>

MatchNext == AskDoesMatch

SpecMatch == MatchInit /\ [][MatchNext]_vars

----------------------------------------------------------------------------
(* The normalizer on its own: normalizeUrl is called with a URL, and, when *)
(* it has accepted it, with the URL it returned.                           *)

UrlChars == {slash, paramStart, paramEnd, "a"}

Urls == UNION {[1..n -> UrlChars] : n \in 0..MaxUrlLen}

NoNormalized == [url |-> <<>>, params |-> <<>>, err |-> errNil]

NormalizeInit ==
    /\ heap = newNode
    /\ stored = {}
    /\ phase = "setup"
    /\ \E url \in Urls :
           last = [op |-> "none", url |-> url, res |-> NoNormalized, again |-> NoNormalized]
    /\ config = [areMiddlewaresEnabled |-> TRUE, optionsHandler |-> FALSE,
                 panicHandler |-> FALSE,
                 defaultResponseStatusCode |-> defaultStatusCode]
    /\ middlewares = New
    /\ routeChain = <<>>
    /\ run = Idle
    /\ trace = <<>>
    /\ writer = newResponseWriter(config.defaultResponseStatusCode)
    /\ transport = <<>>
    /\ contextPool = {}
    /\ contexts = <<>>
    /\ serving = [wk \in 1..MaxWorkers |-> NotServing]
    /\ contextIdChan = getContextIdChan

\* insert calls normalizeUrl(url)
Normalize ==
    /\ last.op = "none"
    /\ last' = [last EXCEPT !.op = "normalizeUrl", !.res = normalizeUrl(last.url)]
    /\ UNCHANGED <<heap, stored, phase, serveVars, poolVars>>

\* normalizeUrl is called with the URL it returned
NormalizeAgain ==
    /\ last.op = "normalizeUrl"
    /\ last.res.err = errNil
    /\ last' = [last EXCEPT !.op = "normalizeUrl again",
                            !.again = normalizeUrl(last.res.url)]
    /\ UNCHANGED <<heap, stored, phase, serveVars, poolVars>>

NormalizeNext == Normalize \/ NormalizeAgain

SpecNormalize == NormalizeInit /\ [][NormalizeNext]_vars

----------------------------------------------------------------------------
(* The typed getters of the route params: getHandler has bound the params  *)
(* of the matched route to the context, and a handler asks for one of them *)
(* as a number.                                                            *)

ParamChars == {"1", "9", "-", ".", "x"}

\* the segments a wildcard is bound to
ParamValues == UNION {[1..n -> ParamChars] : n \in 0..MaxParamLen}

paramKey == <<"i", "d">>

TypedGetters ==
    {"GetIntParam", "GetInt8Param", "GetInt16Param", "GetInt32Param",
     "GetInt64Param", "GetFloat32Param", "GetFloat64Param"}

ParamInit ==
    /\ heap = newNode
    /\ stored = {}
    /\ phase = "serving"
    /\ last = [op |-> "none", res |-> [value |-> 0, err |-> errNil]]
    /\ config = [areMiddlewaresEnabled |-> TRUE, optionsHandler |-> FALSE,
                 panicHandler |-> FALSE,
                 defaultResponseStatusCode |-> defaultStatusCode]
    /\ middlewares = New
    /\ routeChain = <<>>
    /\ run = Idle
    /\ trace = <<>>
    /\ writer = newResponseWriter(config.defaultResponseStatusCode)
    /\ transport = <<>>
    /\ contextPool = {}
    /\ \E params \in {NoParams} \cup {paramKey :> v : v \in ParamValues} :
           contexts = <<BindValue(Reset(NewContext(config), 1, nilRequest),
                                  routeParamsKey, params)>>
    /\ serving = [wk \in 1..MaxWorkers |-> NotServing]
    /\ contextIdChan = getContextIdChan

\* a handler calls one of the typed getters on the context
GetTypedParam(getter) ==
    /\ last.op = "none"
    /\ last' = [op |-> getter,
                res |-> CASE getter = "GetIntParam" -> GetIntParam(contexts[1], paramKey)
                          [] getter = "GetInt8Param" -> GetInt8Param(contexts[1], paramKey)
                          [] getter = "GetInt16Param" -> GetInt16Param(contexts[1], paramKey)
                          [] getter = "GetInt32Param" -> GetInt32Param(contexts[1], paramKey)
                          [] getter = "GetInt64Param" -> GetInt64Param(contexts[1], paramKey)
                          [] getter = "GetFloat32Param" ->
                                 GetFloat32Param(contexts[1], paramKey)
                          [] getter = "GetFloat64Param" ->
                                 GetFloat64Param(contexts[1], paramKey)]
    /\ UNCHANGED <<heap, stored, phase, serveVars, poolVars>>

ParamNext == \E getter \in TypedGetters : GetTypedParam(getter)

SpecParam == ParamInit /\ [][ParamNext]_vars

----------------------------------------------------------------------------
(* One context through the requests it serves: the handlers of a request   *)
(* bind values and read the form, ServeHTTP empties the context, and the   *)
(* ServeHTTP of the next request resets it.                                *)

\* the keys and values handlers bind, and the params getHandler binds
BindArgs ==
    {<<"k1", "v1">>, <<"k1", "v2">>, <<"k2", "v1">>,
     <<routeParamsKey, paramKey :> <<"1">> >>}

FormCalls == {"ParseForm", "GetFormValue", "GetFormFile"}

\* the context has been reset for a request: nothing was called on it yet.
\* parses counts the calls of request.ParseMultipartForm for the request,
\* prev keeps the values that were bound when the context was emptied
Resetted(served, prev) ==
    [op |-> "Reset", key |-> "", err |-> errNil, parses |-> 0, calls |-> 0,
     parseForms |-> 0, served |-> served, prev |-> prev]

ContextInit ==
    /\ heap = newNode
    /\ stored = {}
    /\ phase = "serving"
    /\ last = Resetted(0, Background)
    /\ config = [areMiddlewaresEnabled |-> TRUE, optionsHandler |-> FALSE,
                 panicHandler |-> FALSE,
                 defaultResponseStatusCode |-> defaultStatusCode]
    /\ middlewares = New
    /\ routeChain = <<>>
    /\ run = Idle
    /\ trace = <<>>
    /\ writer = newResponseWriter(config.defaultResponseStatusCode)
    /\ transport = <<>>
    /\ contextPool = {}
    /\ \E r \in PoolRequests : contexts = <<Reset(NewContext(config), 1, r)>>
    /\ serving = [wk \in 1..MaxWorkers |-> NotServing]
    /\ contextIdChan = getContextIdChan

\* a handler calls ctx.BindValue(key, value)
CallBindValue(key, value) ==
    /\ contexts' = <<BindValue(contexts[1], key, value)>>
    /\ last' = [last EXCEPT !.op = "BindValue", !.key = key, !.err = errNil]
    /\ UNCHANGED <<heap, stored, phase, serveVars, contextPool, serving, contextIdChan>>

\* a handler calls ctx.ParseForm(), ctx.GetFormValue(key) or ctx.GetFormFile(key)
CallForm(op) ==
    /\ last.calls < MaxFormCalls
    /\ LET r == CASE op = "ParseForm" -> ParseForm(contexts[1])
                  [] op = "GetFormValue" -> GetFormValue(contexts[1])
                  [] op = "GetFormFile" -> GetFormFile(contexts[1])
       IN  /\ contexts' = <<r.c>>
           /\ last' = [last EXCEPT !.op = op, !.key = "", !.err = r.err,
                                   !.parses = @ + r.parses, !.calls = @ + 1,
                                   !.parseForms = IF op = "ParseForm" THEN @ + 1 ELSE @]
    /\ UNCHANGED <<heap, stored, phase, serveVars, contextPool, serving, contextIdChan>>

\* ServeHTTP empties the context and puts it back; the ServeHTTP of the next
\* request gets it from the pool and resets it
NextRequest(r) ==
    /\ last.served + 1 < MaxRequests
    /\ contexts' = <<Reset(Empty(contexts[1]), 1, r)>>
    /\ last' = Resetted(last.served + 1, contexts[1].ctx)
    /\ UNCHANGED <<heap, stored, phase, serveVars, contextPool, serving, contextIdChan>>

ContextNext ==
    \/ \E a \in BindArgs : CallBindValue(a[1], a[2])
    \/ \E op \in FormCalls : CallForm(op)
    \/ \E r \in PoolRequests : NextRequest(r)

SpecContext == ContextInit /\ [][ContextNext]_vars

----------------------------------------------------------------------------
(* The chain of a route in its index form: ExecuteChain is called with the *)
(* context of a request and the index the context has at that moment.      *)

\* the middlewares of a route: how often each of them calls ctx.Next()
ChainMiddlewares ==
    {[name |-> "once", nexts |-> 1], [name |-> "never", nexts |-> 0],
     [name |-> "twice", nexts |-> 2], [name |-> "around", nexts |-> 256]}

ChainArgs == UNION {[1..n -> ChainMiddlewares] : n \in 0..MaxMiddlewares}

\* the index of the context when the chain of the route is reached
ChainIndexes == {1, 255}

ChainInit ==
    /\ heap = newNode
    /\ stored = {}
    /\ phase = "serving"
    /\ \E pre \in ChainArgs, post \in ChainArgs :
           last = [op |-> "none",
                   route |-> [preRunner |-> pre, postRunner |-> post],
                   lastIndex |-> 0, invoked |-> <<>>]
    /\ config = [areMiddlewaresEnabled |-> TRUE, optionsHandler |-> FALSE,
                 panicHandler |-> FALSE,
                 defaultResponseStatusCode |-> defaultStatusCode]
    /\ middlewares = New
    /\ routeChain = <<>>
    /\ run = Idle
    /\ trace = <<>>
    /\ writer = newResponseWriter(config.defaultResponseStatusCode)
    /\ transport = <<>>
    /\ contextPool = {}
    /\ \E index \in ChainIndexes :
           contexts = <<[Reset(NewContext(config), 1, nilRequest) EXCEPT !.index = index]>>
    /\ serving = [wk \in 1..MaxWorkers |-> NotServing]
    /\ contextIdChan = getContextIdChan

\* route.ExecuteChain(ctx, ctx.GetCurrentIndex())
CallExecuteChain ==
    /\ last.op = "none"
    /\ LET r == ExecuteChain(last.route, contexts[1], GetCurrentIndex(contexts[1]))
       IN  /\ contexts' = <<r.c>>
           /\ last' = [last EXCEPT !.op = "ExecuteChain",
                                   !.lastIndex = GetCurrentIndex(contexts[1]),
                                   !.invoked = r.invoked]
    /\ UNCHANGED <<heap, stored, phase, serveVars, contextPool, serving, contextIdChan>>

ChainNext == CallExecuteChain

SpecChain == ChainInit /\ [][ChainNext]_vars

----------------------------------------------------------------------------
(* Vocabulary of the properties of the tree. *)

\* the segments of a URL after its leading slash
Segments(url) == Split(SliceFrom(url, 1))

IsWildcard(seg) == HasPrefix(seg, paramStart) /\ HasSuffix(seg, paramEnd)

HasWildcard(pattern) ==
    \E i \in 1..Len(Segments(pattern)) : IsWildcard(Segments(pattern)[i])

\* the pattern matches the URL segment by segment
Matches(pattern, url) ==
    LET ps == Segments(pattern)
        us == Segments(url)
    IN  /\ Len(ps) = Len(us)
        /\ \A i \in 1..Len(ps) : IsWildcard(ps[i]) \/ ps[i] = us[i]

SameBinding(t, method, url) ==
    /\ t.method = method
    /\ normalizeUrl(t.url).url = normalizeUrl(url).url

WildcardNames(pattern) ==
    {SubSeq(Segments(pattern)[i], 2, Len(Segments(pattern)[i]) - 1) :
        i \in {j \in 1..Len(Segments(pattern)) : IsWildcard(Segments(pattern)[j])}}

\* the pattern with each wildcard replaced by the value the map has for its name
RECURSIVE substituteSegments(_, _, _)
substituteSegments(ps, i, params) ==
    IF i > Len(ps) THEN <<>>
    ELSE LET name == SubSeq(ps[i], 2, Len(ps[i]) - 1)
             seg == IF IsWildcard(ps[i])
                    THEN IF name \in DOMAIN params THEN params[name] ELSE ps[i]
                    ELSE ps[i]
         IN  <<slash>> \o seg \o substituteSegments(ps, i + 1, params)

Substitute(pattern, params) == substituteSegments(Segments(pattern), 1, params)

Found(route) == [kind |-> "found", route |-> route, params |-> NoParams]

\* the tree built by inserting the triples of a sequence into a new tree
RECURSIVE buildTree(_, _, _)
buildTree(seq, i, b) ==
    IF i > Len(seq) THEN b
    ELSE LET r == insert(b.heap, seq[i].method, seq[i].url, seq[i].route)
         IN  buildTree(seq, i + 1, [heap |-> r.heap, ok |-> b.ok /\ r.err = errNil])

Orderings(S) ==
    {seq \in [1..Cardinality(S) -> S] : \A i, j \in 1..Cardinality(S) : seq[i] = seq[j] => i = j}

----------------------------------------------------------------------------
(* Properties of the tree. *)

\* C1: a registered URL without wildcards is always found: find returns the
\* route of every binding stored under that method and URL, with no params.
C1_LiteralRouteFound ==
    last.op = "find" =>
        \A t \in stored :
            (t.method = last.method /\ t.url = last.url /\ ~HasWildcard(t.url))
                => last.res = Found(t.route)

\* C2: find never returns a wrong route: the returned route was inserted under
\* the requested method with a pattern that matches the URL segment by segment.
C2_FoundRouteMatches ==
    (last.op = "find" /\ last.res.kind = "found") =>
        \E t \in stored :
            /\ t.route = last.res.route
            /\ t.method = last.method
            /\ Matches(t.url, last.url)

\* C3: exact over wildcard: when a literal binding equal to the URL and a
\* wildcard binding matching it are both stored under the method, find
\* returns the literal one with no params.
C3_ExactOverWildcard ==
    last.op = "find" =>
        \A t \in stored :
            ( /\ t.method = last.method /\ t.url = last.url /\ ~HasWildcard(t.url)
              /\ \E w \in stored : /\ w.method = last.method
                                   /\ HasWildcard(w.url)
                                   /\ Matches(w.url, last.url) )
                => last.res = Found(t.route)

\* C4: the result of find does not depend on the order of the inserts: every
\* ordering of the stored triples whose inserts all succeed builds a tree in
\* which the lookup returns what it returned in this one.
C4_OrderIndependent ==
    last.op = "find" =>
        \A seq \in Orderings(stored) :
            LET b == buildTree(seq, 1, [heap |-> newNode, ok |-> TRUE])
            IN  b.ok => find(b.heap, last.method, last.url) = last.res

\* C7: duplicates are rejected: no two successful inserts have the same
\* method and the same normalized URL.
C7_DuplicateRejected ==
    \A t1, t2 \in stored :
        SameBinding(t1, t2.method, t2.url) => t1 = t2

\* C8: no spurious duplicate error: insert returns errUrlAlreadyStored only
\* if a binding with that method and normalized URL was inserted before.
C8_NoSpuriousDuplicate ==
    (last.op = "insert" /\ last.err = errUrlAlreadyStored) =>
        \E t \in stored : SameBinding(t, last.method, last.url)

\* C9: param extraction: the params find returns with a route have exactly
\* the wildcard names of the route's pattern as keys, each bound to the
\* segment of the requested URL at the index of a wildcard of that name.
C9_ParamExtraction ==
    (last.op = "find" /\ last.res.kind = "found") =>
        \A t \in stored :
            t.route = last.res.route =>
                /\ DOMAIN last.res.params = WildcardNames(t.url)
                /\ \A k \in DOMAIN last.res.params :
                       \E i \in 1..Len(Segments(t.url)) :
                           /\ Segments(t.url)[i] = <<paramStart>> \o k \o <<paramEnd>>
                           /\ i <= Len(Segments(last.url))
                           /\ last.res.params[k] = Segments(last.url)[i]

\* a lookup that returned a wildcard route with a bound param
C9_Witness ==
    /\ last.op = "find"
    /\ last.res.kind = "found"
    /\ last.url = uASlashB
    /\ last.res.params = (<<"x">> :> <<"a">>)

\* C10: wildcard round trip: a URL that only one binding of the method
\* matches, a wildcard one, with non-empty values, is resolved to that
\* binding, and its params substituted into the pattern give the URL back.
C10_WildcardRoundTrip ==
    last.op = "find" =>
        \A t \in stored :
            ( /\ t.method = last.method
              /\ HasWildcard(t.url)
              /\ Matches(t.url, last.url)
              /\ \A i \in 1..Len(Segments(last.url)) : Segments(last.url)[i] # <<>>
              /\ \A o \in stored :
                     (o.method = last.method /\ Matches(o.url, last.url)) => o = t )
                => /\ last.res.kind = "found"
                   /\ last.res.route = t.route
                   /\ Substitute(t.url, last.res.params) = last.url

\* the URLs find is asked for before and after a registration
ProbeUrls == RequestUrls \cup {<<"/">>, <<"/", "a">>, <<"/", "b", "b">>}

\* C28: a registration that fails changes nothing observable: when insert
\* returns errEmptyUrl, errMalformedUrl, errMalformedParam or
\* errUrlAlreadyStored, find returns for every method and URL what it
\* returned before the call.
C28_FailedInsertChangesNothing ==
    [][(last'.op = "insert" /\ last'.err # errNil) =>
           \A method \in Methods, url \in ProbeUrls :
               find(heap', method, url) = find(heap, method, url)]_vars

\* some binding of the method matches the URL
RegisteredUnder(method, url) ==
    \E t \in stored : t.method = method /\ Matches(t.url, url)

\* C29: a request whose URL is registered under other methods only is
\* dispatched to the not-found handler: find returns no route for it, and a
\* route that find returns was registered under the method of the request.
C29_OtherMethodNotFound ==
    last.op = "find" =>
        /\ ( /\ \E method \in Methods \ {last.method} :
                    RegisteredUnder(method, last.url)
             /\ ~RegisteredUnder(last.method, last.url) )
               => /\ last.res.kind = "none"
                  /\ getHandler(heap, config, [method |-> last.method,
                                               url |-> last.url]).handler
                         = "notFoundHandler"
        /\ last.res.kind = "found" =>
               \E t \in stored : t.route = last.res.route /\ t.method = last.method

\* the node the walk of find ends on for the last lookup, 0 for nil
Candidate == findLoop(heap, <<1>>, 1, last.url, 0)

\* C36: no fallback in find: when the node the walk ends on has no binding
\* for the method of the request, find returns no route and no params, also
\* when a binding stored under that method matches the URL.
C36_NoFallback ==
    (last.op = "find" /\ Candidate # 0
        /\ last.method \notin DOMAIN heap[Candidate].values)
        => last.res = [kind |-> "none", route |-> NoRoute, params |-> NoParams]

\* the walk ended on the literal node of a URL that is bound under the other
\* method only, while a wildcard binding of the requested method matches it
C36_Witness ==
    /\ last.op = "find"
    /\ Candidate # 0
    /\ last.method \notin DOMAIN heap[Candidate].values
    /\ \E t \in stored : t.method # last.method /\ t.url = last.url
    /\ \E w \in stored : /\ w.method = last.method
                         /\ HasWildcard(w.url)
                         /\ Matches(w.url, last.url)
    /\ last.res.kind = "none"

\* the normalized URLs of the inserts that returned nil
InsertedUrls == {normalizeUrl(t.url).url : t \in stored}

\* C38: the fragment of the root: it is empty in a new tree, the first
\* successful insert makes it the normalized URL of that insert, and from
\* then on it is non-empty, starts with a slash and is a prefix of the
\* normalized URL of every successful insert.
C38_RootFragment ==
    /\ [](stored = {} => heap[1].part = <<>>)
    /\ [][(stored = {} /\ stored' # {})
              => heap'[1].part = normalizeUrl(last'.url).url]_vars
    /\ [](stored # {} =>
              /\ heap[1].part # <<>>
              /\ HasPrefix(heap[1].part, slash)
              /\ \A u \in InsertedUrls :
                     /\ Len(heap[1].part) <= Len(u)
                     /\ SubSeq(u, 1, Len(heap[1].part)) = heap[1].part)

\* the root was cut down to the slash by the insert of a URL with a wildcard
C38_Witness ==
    /\ Cardinality(stored) >= 3
    /\ heap[1].part = <<slash>>
    /\ Len(heap[1].children) >= 2
    /\ \E t \in stored : HasWildcard(t.url)
    /\ \E t \in stored : ~HasWildcard(t.url)

\* C39: the shape of the tree: no node has an empty fragment, the root of a
\* tree without routes excepted, and no two children of a node have
\* fragments that start with the same character.
C39_RadixShape ==
    /\ \A n \in 1..Len(heap) :
           heap[n].part = <<>> => (n = 1 /\ stored = {})
    /\ \A n \in 1..Len(heap) :
           \A i, j \in 1..Len(heap[n].children) :
               LET a == heap[heap[n].children[i]].part
                   b == heap[heap[n].children[j]].part
               IN  (i # j /\ a # <<>> /\ b # <<>>) => a[1] # b[1]

\* a tree of three levels whose root and one inner node have two children
C39_Witness ==
    /\ Len(heap[1].children) >= 2
    /\ \E n \in 2..Len(heap) : Len(heap[n].children) >= 2
    /\ Cardinality(stored) = MaxInserts

\* C30: an OPTIONS request is never resolved through the tree: whatever the
\* URL and whatever is registered, getHandler returns the OPTIONS handler if
\* one is configured and a handler that does nothing otherwise, and binds no
\* route params to the context.
C30_OptionsBypassTree ==
    (last.op = "getHandler" /\ last.method = methodOptions) =>
        /\ last.res.handler = IF config.optionsHandler THEN "optionsHandler" ELSE "noop"
        /\ routeParamsKey \notin DOMAIN last.res.bound

\* getHandler was called with an OPTIONS request for a URL that the tree
\* resolves to a route with params under GET, with an OPTIONS handler set
C30_Witness ==
    /\ last.op = "getHandler"
    /\ last.method = methodOptions
    /\ config.optionsHandler
    /\ last.res.handler = "optionsHandler"
    /\ find(heap, methodGet, last.url).kind = "found"
    /\ find(heap, methodGet, last.url).params # NoParams

\* the context of the last request after getHandler has returned
Dispatched ==
    [Reset(NewContext(config), 1, [method |-> last.method, contentType |-> ""])
        EXCEPT !.ctx = last.res.bound @@ @]

\* C34: after getHandler has matched the request to a route, GetRegisteredUrl
\* returns the URL the route was registered with, and it returns the empty
\* string when no route was matched.
C34_RegisteredUrl ==
    last.op = "getHandler" =>
        IF last.res.handler = "route.execute"
        THEN \E t \in stored :
                 /\ t.route = find(heap, last.method, last.url).route
                 /\ GetRegisteredUrl(Dispatched) = t.url
        ELSE GetRegisteredUrl(Dispatched) = <<>>

----------------------------------------------------------------------------
(* Properties of the dispatcher. *)

PreAborted(i) == trace[i].phase = "pre" /\ trace[i].behaviour = "abort"

IsPreEvent(e) == e.phase = "pre"
IsHandlerEvent(e) == e.phase = "handler"
IsWriterEvent(e) == e.phase = "post" /\ e.mw = getWriterPostMiddleware.name

\* C5: once a global pre middleware has returned without calling next, only
\* post middlewares are invoked (and the panic handler, if one of them
\* panics), and the post chain is executed; if every filtered pre middleware
\* calls next, they all run once, in list order, and then the resolved
\* handler, once.
C5_PreShortCircuit ==
    /\ \A i, j \in 1..Len(trace) :
           (i < j /\ PreAborted(i)) => trace[j].phase \in {"post", "panicHandler"}
    /\ run.pc = "done" =>
           /\ (\E i \in 1..Len(trace) : PreAborted(i)) =>
                  (Len(run.postMw) > 0 =>
                      \E j \in 1..Len(trace) :
                          /\ trace[j].phase = "post"
                          /\ trace[j].mw = run.postMw[1].name)
           /\ (\A i \in 1..Len(run.preMw) : run.preMw[i].behaviour = "next") =>
                  /\ Len(trace) > Len(run.preMw)
                  /\ \A i \in 1..Len(run.preMw) :
                         trace[i] = Event("pre", run.preMw[i].name, "next")
                  /\ trace[Len(run.preMw) + 1] = Event("handler", run.handler, "return")
                  /\ Len(SelectSeq(trace, IsPreEvent)) = Len(run.preMw)
                  /\ Len(SelectSeq(trace, IsHandlerEvent)) = 1

\* a request whose second pre middleware was cut off by the first, served to
\* its end with the post chain executed
C5_Witness ==
    /\ run.pc = "done"
    /\ Len(run.preMw) >= 2
    /\ PreAborted(1)
    /\ run.handler = "route.execute"
    /\ \E j \in 1..Len(trace) : IsWriterEvent(trace[j])

IsFlushEvent(e) == IsWriterEvent(e) \/ e.phase = "flush"
IsPanicHandlerEvent(e) == e.phase = "panicHandler"

\* a middleware or the handler of the request has panicked or is going to
Panicked == \E i \in 1..Len(trace) : trace[i].behaviour = "panic"

\* C6: when Serve has returned from a request without a panic, the response
\* was flushed exactly once, and nothing is written to the transport except
\* by the flush.
C6_FlushedOnce ==
    ~Panicked =>
        /\ Len(transport) = Len(SelectSeq(trace, IsFlushEvent))
        /\ run.pc = "done" => Len(transport) = 1

\* C11: when a handler or a middleware has panicked and a panic handler is
\* configured, Serve returns with the panic handler invoked exactly once and
\* with the response the panic handler left in the buffer flushed to the
\* transport.
C11_PanicHandledAndFlushed ==
    (run.pc = "done" /\ config.panicHandler /\ Panicked) =>
        /\ Len(SelectSeq(trace, IsPanicHandlerEvent)) = 1
        /\ Len(transport) >= 1
        /\ transport[Len(transport)] = writeToResponse(writer)

\* C12: a panic never leaves Serve and ServeHTTP, whether or not a panic
\* handler is configured, so that ServeHTTP goes on to empty the context and
\* to put it back.
C12_PanicAbsorbed == run.pc # "escaped"

\* the status a flush has to choose for a writer
EffectiveStatus(rw) ==
    IF rw.statusCode > 0 THEN rw.statusCode
    ELSE IF rw.defaultStatusCode > 0 THEN rw.defaultStatusCode
    ELSE 200

\* C17: every flush writes the explicitly set status if there is one,
\* otherwise the configured default status, otherwise 200; a writer with no
\* status and no body is flushed as the configured default status and an
\* empty body.
C17_EffectiveStatus ==
    [][\A k \in 1..Len(transport') :
           k > Len(transport) =>
               /\ transport'[k].status = EffectiveStatus(writer)
               /\ (writer.statusCode = 0 /\ writer.b = <<>>) =>
                      transport'[k] = [status |-> config.defaultResponseStatusCode,
                                       body |-> <<>>]]_vars

\* an OPTIONS request without an OPTIONS handler, answered with the
\* configured default status 201 and an empty body
C17_Witness ==
    /\ run.req.method = methodOptions
    /\ run.handler = "noop"
    /\ config.defaultResponseStatusCode = StatusCreated
    /\ transport = <<[status |-> StatusCreated, body |-> <<>>]>>

IsWriteEvent(e) == e.phase = "write"

\* the bytes passed to WriteResponse by the first n events, in call order
Written(n) ==
    LET ws == SelectSeq(SubSeq(trace, 1, n), IsWriteEvent)
    IN  [i \in 1..Len(ws) |-> ws[i].mw]

\* C18: the body the first flush of a request delivers is the concatenation,
\* in call order, of the bytes written before it.
C18_WritesReflected ==
    \A j \in 1..Len(trace) :
        ( /\ IsFlushEvent(trace[j])
          /\ \A i \in 1..(j - 1) : ~IsFlushEvent(trace[i])
          /\ Written(j) # <<>> )
            => transport[1].body = Written(j)

\* what the transport has been given: the number of statuses and the bytes
RECURSIVE Emitted(_)
Emitted(t) ==
    IF t = <<>> THEN [statuses |-> 0, body |-> <<>>]
    ELSE LET rest == Emitted(Tail(t))
         IN  [statuses |-> 1 + rest.statuses, body |-> Head(t).body \o rest.body]

\* C19: once the response of a request has been flushed, the transport is
\* given nothing more: no second status and no further body bytes.
C19_NothingAfterFlush ==
    Len(transport) >= 1 => Emitted(transport) = Emitted(<<transport[1]>>)

IsChainEvent(e) == e.phase \in {"pre", "handler", "route", "terminal", "post"}

\* every middleware of the request calls next and its handler returns
AllProceed ==
    /\ \A i \in 1..Len(run.preMw) : run.preMw[i].behaviour = "next"
    /\ \A i \in 1..Len(routeChain) : routeChain[i].behaviour = "next"
    /\ \A i \in 1..Len(run.postMw) : run.postMw[i].behaviour = "next"
    /\ ~Panics(run.fn)

Events(ph, mws) == [i \in 1..Len(mws) |-> Event(ph, mws[i].name, "next")]

\* C20: for a matched request in which every middleware proceeds, the global
\* pre middlewares run first, then the middlewares of the route, then its
\* handler, then the global post middlewares, and nothing of the handler
\* happens after the first post middleware has started.
C20_ExecutionOrder ==
    (run.pc = "done" /\ run.handler = "route.execute" /\ AllProceed) =>
        /\ SelectSeq(trace, IsChainEvent) =
               Events("pre", run.preMw)
               \o <<Event("handler", "route.execute", "return")>>
               \o Events("route", routeChain)
               \o <<Event("terminal", "fn", "return")>>
               \o Events("post", run.postMw)
        /\ \A i, j \in 1..Len(trace) :
               (i < j /\ trace[i].phase = "post") => trace[j].phase = "post"

\* a matched request served to its end through a user pre middleware, a
\* middleware of the route, the handler and the post chain
C20_Witness ==
    /\ run.pc = "done"
    /\ run.handler = "route.execute"
    /\ AllProceed
    /\ Len(run.preMw) >= 1
    /\ Len(routeChain) >= 1
    /\ Len(run.postMw) >= 2
    /\ Len(run.fn) >= 2

IsPostEvent(e) == e.phase = "post"

\* the events a list of middlewares leaves when each of them is executed
Executed(ph, mws) ==
    [i \in 1..Len(mws) |-> Event(ph, mws[i].name, mws[i].behaviour)]

IsPrefixOf(s, t) == Len(s) <= Len(t) /\ SubSeq(t, 1, Len(s)) = s
IsSuffixOf(s, t) == Len(s) <= Len(t) /\ SubSeq(t, Len(t) - Len(s) + 1, Len(t)) = s

\* C21: the global pre middlewares of a call are put behind everything
\* registered before, the global post middlewares of a call in front of
\* everything registered before, each call keeping its argument order, so
\* that the writer and the logger New registered stay last, the writer
\* first; and the middlewares of a request are executed in the order of
\* these lists.
C21_RegistrationOrder ==
    /\ [](/\ IsSuffixOf(<<getWriterPostMiddleware, getLoggerMiddleware>>,
                         middlewares[MiddlewarePostRunner])
          /\ IsPrefixOf(<<getBodyReaderMiddleware>>, middlewares[MiddlewarePreRunner])
          /\ run.pc # "idle" =>
                 /\ run.preMw = filterMatchinMiddleware(
                                    middlewares, config.areMiddlewaresEnabled,
                                    run.req, MiddlewarePreRunner)
                 /\ run.postMw = filterMatchinMiddleware(
                                     middlewares, config.areMiddlewaresEnabled,
                                     run.req, MiddlewarePostRunner)
                 /\ IsPrefixOf(SelectSeq(trace, IsPreEvent), Executed("pre", run.preMw))
                 /\ IsPrefixOf(SelectSeq(trace, IsPostEvent), Executed("post", run.postMw)))
    /\ [][/\ middlewares'[MiddlewarePreRunner] # middlewares[MiddlewarePreRunner] =>
                \E mws \in MiddlewareArgs :
                    middlewares'[MiddlewarePreRunner] =
                        middlewares[MiddlewarePreRunner] \o mws
          /\ middlewares'[MiddlewarePostRunner] # middlewares[MiddlewarePostRunner] =>
                \E mws \in MiddlewareArgs :
                    middlewares'[MiddlewarePostRunner] =
                        mws \o middlewares[MiddlewarePostRunner]]_vars

\* a request served to its end through a user pre middleware behind the body
\* reader and a user post middleware in front of the writer and the logger
C21_Witness ==
    /\ run.pc = "done"
    /\ Len(middlewares[MiddlewarePreRunner]) = 2
    /\ Len(middlewares[MiddlewarePostRunner]) = 3
    /\ SelectSeq(trace, IsPreEvent) = Executed("pre", middlewares[MiddlewarePreRunner])
    /\ SelectSeq(trace, IsPostEvent) = Executed("post", middlewares[MiddlewarePostRunner])

\* the request has been served to its end, every middleware that ran called
\* next and nothing panicked
ServedThrough ==
    /\ run.pc = "done"
    /\ ~Panicked
    /\ \A i \in 1..Len(trace) : trace[i].behaviour # "abort"

\* what the claim lets run: with the flag off the always allowed middlewares
\* the matcher accepts, with the flag on the ones the matcher accepts
MayRun(m) ==
    IF config.areMiddlewaresEnabled THEN DoesMatch(m, run.req)
    ELSE m.isAlwaysAllowed /\ DoesMatch(m, run.req)

IsGlobalEvent(e) == e.phase \in {"pre", "post"}

IsRouteEvent(e) == e.phase = "route"
IsTerminalEvent(e) == e.phase = "terminal"

\* C23: the middlewares of a route are executed in the order they were
\* registered in: a call of RegisterMiddlewares on the route puts its
\* arguments, in their order, behind the middlewares of every earlier call;
\* the chain is executed from its head, and the handler of the route is
\* called after all of them.
C23_RouteRegistrationOrder ==
    /\ [](/\ IsPrefixOf(SelectSeq(trace, IsRouteEvent), Executed("route", routeChain))
          /\ \A i \in 1..Len(trace) :
                 IsTerminalEvent(trace[i]) =>
                     SelectSeq(SubSeq(trace, 1, i), IsRouteEvent) =
                         Executed("route", routeChain))
    /\ [][routeChain' # routeChain =>
              \E mws \in RouteMiddlewareArgs : routeChain' = routeChain \o mws]_vars

\* C37: the order of the steps of Serve: the post middlewares are filtered
\* only when the pre chain, the resolved handler included, has finished: a
\* step that gives the request its filtered post list is a step that ends
\* the pre chain.
C37_PostFilteredAfterPreChain ==
    [][(run'.pc # "idle" /\ run'.postMw # run.postMw)
           => (run.pc \in {"pre", "route", "fn"} /\ run'.pc = "post")]_vars

----------------------------------------------------------------------------
(* Properties of the normalizer. *)

Normalized == last.op \in {"normalizeUrl", "normalizeUrl again"}

\* a segment that opens a parameter and does not close it
IsOpenParam(seg) == HasPrefix(seg, paramStart) /\ ~HasSuffix(seg, paramEnd)

\* the segments with every wildcard replaced by {}, each behind a slash
RECURSIVE Placeholders(_)
Placeholders(segs) ==
    IF segs = <<>> THEN <<>>
    ELSE <<slash>> \o (IF IsWildcard(Head(segs)) THEN <<paramStart, paramEnd>>
                       ELSE Head(segs))
         \o Placeholders(Tail(segs))

\* the 1-based positions of the wildcards among the segments
WildcardPositions(segs) == {i \in 1..Len(segs) : IsWildcard(segs[i])}

Failed(res, err) == res = [url |-> <<>>, params |-> <<>>, err |-> err]

\* C25: normalizeUrl returns errEmptyUrl for the empty string,
\* errMalformedUrl for a non-empty input that does not start with a slash,
\* errMalformedParam when a segment opens a parameter without closing it,
\* each with an empty url and no params; otherwise it succeeds with the
\* input in which every wildcard segment is replaced by {}, and one (name,
\* 0-based segment index) pair per wildcard, from left to right.
C25_NormalizeUrl ==
    Normalized =>
        LET url == last.url
            res == last.res
            segs == Segments(url)
        IN  IF url = <<>> THEN Failed(res, errEmptyUrl)
            ELSE IF url[1] # slash THEN Failed(res, errMalformedUrl)
            ELSE IF \E i \in 1..Len(segs) : IsOpenParam(segs[i])
            THEN Failed(res, errMalformedParam)
            ELSE /\ res.err = errNil
                 /\ res.url = Placeholders(segs)
                 /\ Len(res.params) = Cardinality(WildcardPositions(segs))
                 /\ \A k \in 1..Len(res.params) :
                        /\ res.params[k].index + 1 \in WildcardPositions(segs)
                        /\ segs[res.params[k].index + 1] =
                               <<paramStart>> \o res.params[k].key \o <<paramEnd>>
                        /\ \A j \in 1..(k - 1) :
                               res.params[j].index < res.params[k].index

\* a URL with a literal and a wildcard segment was normalized
C25_Witness ==
    /\ last.op = "normalizeUrl"
    /\ last.url = <<"/", "a", "/", "{", "a", "}">>
    /\ last.res = [url |-> <<"/", "a", "/", "{", "}">>,
                   params |-> <<[key |-> <<"a">>, index |-> 1]>>,
                   err |-> errNil]

\* C26: the normalized form of an accepted URL does not end with a slash,
\* unless the URL is the single slash.
C26_NoTrailingSlash ==
    (Normalized /\ last.res.err = errNil /\ last.url # <<slash>>) =>
        ~HasSuffix(last.res.url, slash)

\* C27: normalizeUrl accepts the URL it returned and returns it again.
C27_NormalizeIdempotent ==
    last.op = "normalizeUrl again" =>
        /\ last.again.err = errNil
        /\ last.again.url = last.res.url

\* the normalized form of a URL with a wildcard was normalized again
C27_Witness ==
    /\ last.op = "normalizeUrl again"
    /\ last.url = <<"/", "{", "a", "}", "/", "a">>
    /\ last.again.url = <<"/", "{", "}", "/", "a">>

----------------------------------------------------------------------------
(* Properties of the matchers of a middleware. *)

\* the options that gave the middleware matchers
GivesMatchers(opts) ==
    {i \in 1..Len(opts) : opts[i].option = "MiddlewareWithMatchers"
                          /\ opts[i].matchers # <<>>}

\* the matchers a middleware was created with: those of the option that
\* configured them (of the last one, if several did)
ItsMatchers(opts) ==
    IF GivesMatchers(opts) = {} THEN <<>>
    ELSE opts[CHOOSE i \in GivesMatchers(opts) :
                  \A j \in GivesMatchers(opts) : j <= i].matchers

\* C24: a middleware created without matchers matches every context; a
\* middleware created with matchers matches a context if and only if every
\* one of its matchers returns true for it.
C24_MatcherSemantics ==
    last.op = "DoesMatch" =>
        /\ ItsMatchers(last.opts) = <<>> => last.res = TRUE
        /\ ItsMatchers(last.opts) # <<>> =>
               (last.res <=> \A i \in 1..Len(ItsMatchers(last.opts)) :
                                MiddlewareMatcherFunc(ItsMatchers(last.opts)[i], last.req))

\* a middleware with two matchers, one accepting and one refusing the
\* request, was asked and did not match
C24_Witness ==
    /\ last.op = "DoesMatch"
    /\ last.opts = <<MiddlewareWithMatchers(<<defaultMatcher, "couldReadBody">>)>>
    /\ last.req.method = methodGet
    /\ last.res = FALSE

----------------------------------------------------------------------------
(* Properties of the context pool. *)

\* a context that holds nothing of a request
Clean(c) ==
    /\ c.request = nilRequest
    /\ c.writer.w = nilWriter
    /\ c.writer.buff = <<>>
    /\ c.writer.statusCode = 0
    /\ c.writer.writtenBytes = 0
    /\ c.index = 1
    /\ c.ctx = Background
    /\ ~c.isFormParsed

\* C13: right after Empty the context holds nothing of the finished request:
\* no request, no writer sink, an empty buffer, status and written bytes 0,
\* the index 1, no bound values, and the form not parsed.
C13_EmptiedContextIsClean ==
    \A wk \in Workers :
        serving[wk].pc = "emptied" => Clean(contexts[serving[wk].ctx])

\* C14: on a request whose Content-Type is not multipart/form-data, ParseForm
\* and GetFormValue return ErrCtNotMultipart, whatever the context served
\* before.
C14_NotMultipartRejected ==
    \A wk \in Workers :
        serving[wk].req.contentType # MultiPartFormContentType
            => serving[wk].formErrs \subseteq {ErrCtNotMultipart}

\* the executions that have their id and still hold their context
HasId(wk) == serving[wk].pc \in {"serve", "served"}

\* C15: the n-th id the channel issues is n, and two contexts that are in
\* use at the same time never have the same id.
C15_DistinctIds ==
    /\ \A n \in 1..Len(contextIdChan.issued) : contextIdChan.issued[n] = n
    /\ \A w1, w2 \in Workers :
           (w1 # w2 /\ HasId(w1) /\ HasId(w2)) =>
               contexts[serving[w1].ctx].contextId # contexts[serving[w2].ctx].contextId

\* two executions have received their ids while both are in flight
C15_Witness ==
    /\ Len(contextIdChan.issued) = MaxRequests
    /\ \E w1, w2 \in Workers : w1 # w2 /\ HasId(w1) /\ HasId(w2)

Lifecycle == <<"Get", "Reset", "Serve", "Empty">>

\* C16: no context is held by two executions of ServeHTTP at the same time,
\* a context that is held is not in the pool, the steps of each execution
\* are taken in the order Get, Reset, Serve, Empty, and a context is put back
\* only by the execution that holds it, as its last step, after its Empty.
C16_ExclusiveOwnership ==
    /\ [](/\ \A w1, w2 \in Workers :
                (w1 # w2 /\ serving[w1].ctx # 0) => serving[w1].ctx # serving[w2].ctx
          /\ \A wk \in Workers :
                /\ serving[wk].ctx # 0 => serving[wk].ctx \notin contextPool
                /\ Len(serving[wk].steps) <= Len(Lifecycle)
                /\ serving[wk].steps = SubSeq(Lifecycle, 1, Len(serving[wk].steps)))
    /\ [][\A c \in contextPool' \ contextPool :
              \E wk \in Workers :
                  /\ serving[wk].ctx = c
                  /\ serving[wk].steps = Lifecycle
                  /\ serving'[wk] = NotServing]_vars

\* two executions are in flight at the same time, each with a context of
\* its own: one has emptied its context, the other is being served
C16_Witness ==
    \E w1, w2 \in Workers :
        /\ w1 # w2
        /\ serving[w1].pc = "emptied"
        /\ serving[w2].pc = "serve"
        /\ serving[w1].ctx # serving[w2].ctx

----------------------------------------------------------------------------
(* Properties of the context. *)

\* the bits of the type a typed getter returns, 0 for none of them
BitsOf(getter) ==
    CASE getter \in {"GetIntParam", "GetInt64Param", "GetFloat64Param"} -> 64
      [] getter \in {"GetInt32Param", "GetFloat32Param"} -> 32
      [] getter = "GetInt16Param" -> 16
      [] getter = "GetInt8Param" -> 8
      [] OTHER -> 0

\* the segment is a number of the type the getter returns
ValidNumber(getter, seg) ==
    IF getter \in {"GetFloat32Param", "GetFloat64Param"}
    THEN ParseFloat(seg).err = errNil
    ELSE /\ Atoi(seg).err = errNil
         /\ BitsOf(getter) < 32 =>
                /\ Atoi(seg).value >= 0 - 2 ^ (BitsOf(getter) - 1)
                /\ Atoi(seg).value <= 2 ^ (BitsOf(getter) - 1) - 1

\* C31: the typed getters surface parse errors: a getter returns an error
\* when the param is missing or its segment is not a number of the type the
\* getter returns, a number out of the range of the integer type included.
C31_TypedGetterErrors ==
    ( /\ last.op \in TypedGetters
      /\ \/ paramKey \notin DOMAIN GetParams(contexts[1])
         \/ ~ValidNumber(last.op, GetParam(contexts[1], paramKey)) )
        => last.res.err # errNil

\* what the context gives for a key: the params for the key of the params
Value(c, key) == IF key = routeParamsKey THEN GetParams(c) ELSE GetBindedValue(c, key)

BindKeys == {a[1] : a \in BindArgs}

\* C32: value binding: BindValue(k, v) makes GetBindedValue(k) return v and
\* leaves the value of every other key as it was, no other call changes a
\* bound value, and after Reset every key yields nil and GetParams an empty
\* map, whatever was bound during the previous request.
C32_ValueBinding ==
    /\ [][last'.op = "BindValue" =>
              /\ \E a \in BindArgs :
                     a[1] = last'.key /\ Value(contexts'[1], a[1]) = a[2]
              /\ \A k \in BindKeys \ {last'.key} :
                     Value(contexts'[1], k) = Value(contexts[1], k)]_vars
    /\ [][last'.op \in FormCalls =>
              \A k \in BindKeys : Value(contexts'[1], k) = Value(contexts[1], k)]_vars
    /\ [](last.op = "Reset" =>
              /\ \A k \in BindKeys \ {routeParamsKey} :
                     GetBindedValue(contexts[1], k) = nil
              /\ GetParams(contexts[1]) = NoParams)

\* the context was reset for its second request after a request in which two
\* keys and the params were bound
C32_Witness ==
    /\ last.op = "Reset"
    /\ last.served = 1
    /\ DOMAIN last.prev = BindKeys
    /\ GetBindedValue(contexts[1], "k1") = nil

\* C33: within one request request.ParseMultipartForm is called at most
\* once, however often ParseForm, GetFormValue and GetFormFile are called,
\* and a ParseForm that follows a ParseForm of a multipart request changes
\* nothing and returns nil.
C33_ParsedOnce ==
    /\ [](last.parses <= 1)
    /\ [][( /\ last'.op = "ParseForm"
            /\ last.parseForms >= 1
            /\ last'.served = last.served
            /\ contexts[1].request.contentType = MultiPartFormContentType )
              => /\ last'.err = errNil
                 /\ last'.parses = last.parses
                 /\ contexts' = contexts]_vars

\* a multipart request whose form was parsed by the first of three calls,
\* the last of them a second ParseForm
C33_Witness ==
    /\ contexts[1].request.contentType = MultiPartFormContentType
    /\ last.op = "ParseForm"
    /\ last.calls = MaxFormCalls
    /\ last.parseForms >= 2
    /\ last.parses = 1

----------------------------------------------------------------------------
(* Properties of the chain of a route. *)

\* the middleware leaves the index of the context where it was
Stays(e) == e.nexts % 256 = 0

\* the names of the middlewares of a list, in the order of the list
RECURSIVE Names(_)
Names(mws) == IF mws = <<>> THEN <<>> ELSE <<Head(mws).name>> \o Names(Tail(mws))

\* the position of the first pre middleware that leaves the index where it
\* was, one more than the length of the list if they all advance it
FirstStop(pre) ==
    CHOOSE i \in 1..(Len(pre) + 1) :
        /\ i <= Len(pre) => Stays(pre[i])
        /\ \A j \in 1..(i - 1) : ~Stays(pre[j])

\* C35: the chain of a route in its index form: the pre middlewares are
\* invoked in the order of their list up to the first one that returns with
\* the index where it was, one that does not call Next included; the
\* handler is invoked after them if and only if each of them advanced the
\* index; then every post middleware is invoked, in the order of its list,
\* whether the handler was invoked or not and whether they call Next or not.
C35_IndexChain ==
    last.op = "ExecuteChain" =>
        LET pre == last.route[MiddlewarePreRunner]
            post == last.route[MiddlewarePostRunner]
            stop == FirstStop(pre)
        IN  last.invoked =
                Names(SubSeq(pre, 1, IF stop > Len(pre) THEN Len(pre) ELSE stop))
                \o (IF stop > Len(pre) THEN <<"handler">> ELSE <<>>)
                \o Names(post)

\* the second pre middleware did not call Next, on a context whose index
\* wrapped around: the handler was skipped and both post middlewares ran
C35_Witness ==
    /\ last.op = "ExecuteChain"
    /\ last.lastIndex = 255
    /\ Names(last.route[MiddlewarePreRunner]) = <<"once", "never">>
    /\ Len(last.route[MiddlewarePostRunner]) = 2
    /\ last.invoked = <<"once", "never">> \o Names(last.route[MiddlewarePostRunner])

====
